---- MODULE Spec2Model ----
(***************************************************************************)
(* A model of the PumpTrader trade engine (src/index.js): the order        *)
(* planner (splitByMax), the confirmation poller                           *)
(* (confirmTransactionWithPolling), the token-program cache                *)
(* (detectTokenProgram / clearTokenProgramCache / getCachedTokenProgram),  *)
(* the batch executors (buy, sell, ammBuy, ammSell), the phase-selecting   *)
(* entry points (autoBuy, autoSell), the pricing functions and the trade   *)
(* listener (listenTrades).                                                *)
(*                                                                         *)
(* Each part has its own specification over the shared variables: the      *)
(* variables of the other parts stay at their initial value.               *)
(***************************************************************************)
EXTENDS Integers, Sequences, FiniteSets, TLC

VARIABLES
    \* ---- splitByMax (src/index.js 560-570)
    total, max, remaining, chunks, splitPc,
    \* ---- confirmTransactionWithPolling (src/index.js 1220-1262)
    maxAttempts, lastValidBlockHeight, attempt, pollPc, pollResult,
    txInfo, currentBlockHeight,
    statusQueries, heightQueries, rejectedAt, pastCeilingUnfound,
    heightPastReturned, queryThrows,
    \* ---- the engine's state (src/index.js 160-166) and detectTokenProgram
    tokenProgramCache, globalState, mintOwner,
    detectPc, detectMint, detectQueries, detectResult,
    detected, cachedAtStart, cachedRead, lastClear, overlapped,
    \* ---- buy / sell / ammBuy / ammSell (src/index.js 611-995) and the ledger
    tradeOp, tradePc, totalIn, maxSolPerTx, state, planChunks, index,
    pendingTransactions, failedTransactions, tradeResult, blockhash,
    curveComplete, reserves, slot,
    attempted, outcomes, sendCalls, blockhashFetches,
    \* ---- one call of a pricing or planning function (src/index.js 305-329,
    \*      544-583) or of the amounts of one sub-order (650-657, 770-776,
    \*      848-855, 932-939), against one reserve snapshot
    quoteReserves, quoteCall, quoteResult,
    \* ---- listenTrades (src/index.js 1266-1305) and the caller's use of the
    \*      value it returns
    listenPc, mintFilter, handle, unsubscribeResult, lastLog, delivered,
    notified, callbackCount,
    \* ---- autoBuy / autoSell (src/index.js 590-609) and getTradeMode (215-234)
    autoOp, autoMode, modeReadThrew

splitVars == <<total, max, remaining, chunks, splitPc>>
pollVars == <<maxAttempts, lastValidBlockHeight, attempt, pollPc, pollResult,
              txInfo, currentBlockHeight, statusQueries, heightQueries,
              rejectedAt, pastCeilingUnfound, heightPastReturned, queryThrows>>
cacheVars == <<tokenProgramCache, globalState, mintOwner, detectPc, detectMint,
               detectQueries, detectResult, detected, cachedAtStart, cachedRead,
               lastClear, overlapped>>
tradeVars == <<tradeOp, tradePc, totalIn, maxSolPerTx, state, planChunks, index,
               pendingTransactions, failedTransactions, tradeResult, blockhash,
               curveComplete, reserves, slot,
               attempted, outcomes, sendCalls, blockhashFetches>>
quoteVars == <<quoteReserves, quoteCall, quoteResult>>
listenVars == <<listenPc, mintFilter, handle, unsubscribeResult, lastLog,
                delivered, notified, callbackCount>>
autoVars == <<autoOp, autoMode, modeReadThrew>>
vars == <<splitVars, pollVars, cacheVars, tradeVars, quoteVars, listenVars,
          autoVars>>

(***************************************************************************)
(* Bounds of the model.                                                    *)
(***************************************************************************)
MaxTotal == 7
MaxPerTx == 4
MaxAttemptsBound == 3
MaxCeiling == 2
MaxTradeTotal == 3
MaxTradeCeiling == 2
MaxSlot == 1
MaxReserve == 4
MaxAmount == 4
MaxParts == 5
MaxOrderTotal == 3
MaxOrderCeiling == 2
MaxLogLines == 2
MaxNotifications == 1
MaxAutoTotal == 2
MaxAutoCeiling == 1

RECURSIVE SumSeq(_)
SumSeq(s) == IF s = <<>> THEN 0 ELSE Head(s) + SumSeq(Tail(s))

CeilDiv(a, b) == (a + b - 1) \div b

(***************************************************************************)
(* splitByMax(total, max): the loop, one iteration per step.               *)
(*   while (remaining > 0n) {                                              *)
(*     const chunk = remaining > max ? max : remaining;                    *)
(*     chunks.push(chunk); remaining -= chunk; }                           *)
(***************************************************************************)
SplitIdle ==
    /\ total = 0 /\ max = 0 /\ remaining = 0 /\ chunks = <<>> /\ splitPc = "idle"

\* A chunk that is always the ceiling: the last, partial chunk is forgotten.
SplitChunkNoRemainder(rem, mx) == mx

SplitChunk(rem, mx) == IF rem > mx THEN mx ELSE rem

\* The iterations a call with max = 0 is followed for: it never leaves the loop.
ChunkCap == MaxTotal + 2

SplitByMaxStep ==
    /\ splitPc = "loop"
    /\ remaining > 0
    /\ Len(chunks) < ChunkCap
    /\ LET chunk == SplitChunk(remaining, max)
       IN /\ chunks' = Append(chunks, chunk)
          /\ remaining' = remaining - chunk
    /\ UNCHANGED <<total, max, splitPc>>

SplitByMaxReturn ==
    /\ splitPc = "loop"
    /\ ~(remaining > 0)
    /\ splitPc' = "done"
    /\ UNCHANGED <<total, max, remaining, chunks>>

InitSplit ==
    /\ total \in 0..MaxTotal
    /\ max \in 0..MaxPerTx
    /\ remaining = total
    /\ chunks = <<>>
    /\ splitPc = "loop"

(***************************************************************************)
(* confirmTransactionWithPolling.  The ledger is the environment: the      *)
(* transaction may land (with or without an error payload) and the         *)
(* finalized block height grows, at any moment between two steps of the    *)
(* call.  A query may also throw; the catch block decides by the error's   *)
(* message, so a thrown error carries the class of its message.            *)
(***************************************************************************)
Signature == "sig"
NoResult == [kind |-> "none"]
Returned(v) == [kind |-> "returned", value |-> v]
Threw(e) == [kind |-> "threw", error |-> e]

\* Error messages, by the substring the catch block looks for.
\*   "TxFailed"  contains the transaction-failed marker  (line 1238)
\*   "TxExpired" contains the transaction-expired marker (line 1248)
\*   "Timeout"   the confirmation timed-out message      (line 1260)
\*   "Other"     contains none of them
QueryErrorMessages == {"Other", "TxFailed", "TxExpired"}

RejectedError == [msg |-> "TxFailed", origin |-> "poller", signature |-> "none"]
ExpiredError == [msg |-> "TxExpired", origin |-> "poller", signature |-> "none"]
TimedOutError(sig) == [msg |-> "Timeout", origin |-> "poller", signature |-> sig]
QueryError(m) == [msg |-> m, origin |-> "query", signature |-> "none"]

PollIdle ==
    /\ maxAttempts = 0 /\ lastValidBlockHeight = 0 /\ attempt = 0
    /\ pollPc = "idle" /\ pollResult = NoResult
    /\ txInfo = "null" /\ currentBlockHeight = 0
    /\ statusQueries = 0 /\ heightQueries = 0
    /\ rejectedAt = <<>> /\ pastCeilingUnfound = FALSE
    /\ heightPastReturned = FALSE /\ queryThrows = 0

\* A catch block that rethrows only the expired error.
CatchRethrowsExpiredOnly(error) == error.msg = "TxExpired"

\* catch (error) { if (message includes failed or expired marker) throw error; }
CatchRethrows(error) == error.msg \in {"TxFailed", "TxExpired"}

\* An expiry test that is late by one block.
IsExpiredLate(height, ceiling) == height > ceiling + 1

\* if (currentBlockHeight > lastValidBlockHeight)
IsExpired(height, ceiling) == height > ceiling

\* A loop that makes one attempt too many.
LoopContinuesOneMore(a, n) == a <= n + 1

\* for (let attempt = 1; attempt <= maxAttempts; attempt++)
LoopContinues(a, n) == a <= n

\* The handling of an error thrown inside the try block of an attempt.
Caught(error) ==
    IF CatchRethrows(error)
    THEN /\ pollResult' = Threw(error)
         /\ pollPc' = "done"
         /\ attempt' = attempt
    ELSE /\ pollResult' = pollResult
         /\ pollPc' = "loop"
         /\ attempt' = attempt + 1

\* The loop head and the delay before the attempt; after the loop, the throw.
PollLoop ==
    /\ pollPc = "loop"
    /\ IF LoopContinues(attempt, maxAttempts)
       THEN /\ pollPc' = "getTransaction"
            /\ pollResult' = pollResult
       ELSE /\ pollPc' = "done"
            /\ pollResult' = Threw(TimedOutError(Signature))
    /\ UNCHANGED <<maxAttempts, lastValidBlockHeight, attempt, txInfo,
                   currentBlockHeight, statusQueries, heightQueries, rejectedAt,
                   pastCeilingUnfound, heightPastReturned, queryThrows>>

\* await getTransaction(signature): it throws.
GetTransactionThrows ==
    /\ pollPc = "getTransaction"
    /\ statusQueries' = statusQueries + 1
    /\ \E m \in QueryErrorMessages : Caught(QueryError(m))
    /\ queryThrows' = queryThrows + 1
    /\ pastCeilingUnfound' =
         (pastCeilingUnfound
            \/ (txInfo = "null" /\ currentBlockHeight > lastValidBlockHeight))
    /\ UNCHANGED <<maxAttempts, lastValidBlockHeight, txInfo, currentBlockHeight,
                   heightQueries, rejectedAt, heightPastReturned>>

\* await getTransaction(signature): it returns txInfo.
GetTransactionReturns ==
    /\ pollPc = "getTransaction"
    /\ statusQueries' = statusQueries + 1
    /\ CASE txInfo = "err" ->
              /\ Caught(RejectedError)
              /\ rejectedAt' =
                   IF rejectedAt = <<>>
                   THEN <<[attempt |-> attempt, statusQueries |-> statusQueries + 1,
                           heightQueries |-> heightQueries]>>
                   ELSE rejectedAt
         [] txInfo = "ok" ->
              /\ pollResult' = Returned(Signature)
              /\ pollPc' = "done"
              /\ UNCHANGED <<attempt, rejectedAt>>
         [] txInfo = "null" ->
              /\ pollPc' = "getBlockHeight"
              /\ UNCHANGED <<attempt, pollResult, rejectedAt>>
    /\ pastCeilingUnfound' =
         (pastCeilingUnfound
            \/ (txInfo = "null" /\ currentBlockHeight > lastValidBlockHeight))
    /\ UNCHANGED <<maxAttempts, lastValidBlockHeight, txInfo, currentBlockHeight,
                   heightQueries, heightPastReturned, queryThrows>>

\* await getBlockHeight('finalized'): it throws.
GetBlockHeightThrows ==
    /\ pollPc = "getBlockHeight"
    /\ heightQueries' = heightQueries + 1
    /\ \E m \in QueryErrorMessages : Caught(QueryError(m))
    /\ queryThrows' = queryThrows + 1
    /\ pastCeilingUnfound' =
         (pastCeilingUnfound
            \/ (txInfo = "null" /\ currentBlockHeight > lastValidBlockHeight))
    /\ UNCHANGED <<maxAttempts, lastValidBlockHeight, txInfo, currentBlockHeight,
                   statusQueries, rejectedAt, heightPastReturned>>

\* await getBlockHeight('finalized'): it returns the height.
GetBlockHeightReturns ==
    /\ pollPc = "getBlockHeight"
    /\ heightQueries' = heightQueries + 1
    /\ IF IsExpired(currentBlockHeight, lastValidBlockHeight)
       THEN Caught(ExpiredError)
       ELSE /\ pollPc' = "loop"
            /\ attempt' = attempt + 1
            /\ pollResult' = pollResult
    /\ heightPastReturned' =
         (heightPastReturned \/ currentBlockHeight > lastValidBlockHeight)
    /\ pastCeilingUnfound' =
         (pastCeilingUnfound
            \/ (txInfo = "null" /\ currentBlockHeight > lastValidBlockHeight))
    /\ UNCHANGED <<maxAttempts, lastValidBlockHeight, txInfo, currentBlockHeight,
                   statusQueries, rejectedAt, queryThrows>>

\* The ledger: the transaction lands, with or without an error payload.  The
\* ledger takes a transaction only while its blockhash is valid.
TxLands ==
    /\ pollPc # "idle"
    /\ txInfo = "null"
    /\ currentBlockHeight <= lastValidBlockHeight
    /\ txInfo' \in {"ok", "err"}
    /\ UNCHANGED <<maxAttempts, lastValidBlockHeight, attempt, pollPc, pollResult,
                   currentBlockHeight, statusQueries, heightQueries, rejectedAt,
                   pastCeilingUnfound, heightPastReturned, queryThrows>>

\* The ledger: the finalized block height grows.
HeightGrows ==
    /\ pollPc # "idle"
    /\ currentBlockHeight <= MaxCeiling
    /\ currentBlockHeight' = currentBlockHeight + 1
    /\ UNCHANGED <<maxAttempts, lastValidBlockHeight, attempt, pollPc, pollResult,
                   txInfo, statusQueries, heightQueries, rejectedAt,
                   pastCeilingUnfound, heightPastReturned, queryThrows>>

PollerStep ==
    \/ PollLoop
    \/ GetTransactionThrows
    \/ GetTransactionReturns
    \/ GetBlockHeightThrows
    \/ GetBlockHeightReturns

InitPoll ==
    /\ maxAttempts \in 0..MaxAttemptsBound
    /\ lastValidBlockHeight \in 0..MaxCeiling
    /\ attempt = 1
    /\ pollPc = "loop"
    /\ pollResult = NoResult
    /\ txInfo = "null"
    /\ currentBlockHeight = 0
    /\ statusQueries = 0 /\ heightQueries = 0
    /\ rejectedAt = <<>> /\ pastCeilingUnfound = FALSE
    /\ heightPastReturned = FALSE /\ queryThrows = 0

(***************************************************************************)
(* The engine's mutable state: tokenProgramCache (a Map keyed by the mint  *)
(* address) and globalState (null until loadGlobal has run).               *)
(* detectTokenProgram is an async method: two callers may be inside it at  *)
(* once, each suspended at one of its two getMint queries.  The ledger     *)
(* fixes the program that owns each mint; a query may fail for any reason. *)
(***************************************************************************)
Mints == {"mintA", "mintB"}
Callers == {1, 2}
NoEntry == [type |-> "undefined", programId |-> "undefined"]
Falsy == "null"
TOKEN_2022_PROGRAM_ID == [type |-> "TOKEN_2022_PROGRAM_ID", programId |-> "TokenzQd"]
TOKEN_PROGRAM_ID == [type |-> "TOKEN_PROGRAM_ID", programId |-> "Tokenkeg"]
DetectionFailed == [msg |-> "Failed to detect token program", origin |-> "detect",
                    signature |-> "none"]
NoClear == [arg |-> "none"]

EmptyCache == [m \in Mints |-> NoEntry]

\* this.tokenProgramCache.has(tokenAddr)
CacheHas(cache, m) == cache[m] # NoEntry

\* A success path that forgets this.tokenProgramCache.set.
CacheSetSkipped(cache, m, result) == cache

\* this.tokenProgramCache.set(tokenAddr, result)
CacheSet(cache, m, result) == [cache EXCEPT ![m] = result]

\* A delete that empties the whole map.
CacheDeleteAll(cache, m) == EmptyCache

\* this.tokenProgramCache.delete(tokenAddr)
CacheDelete(cache, m) == [cache EXCEPT ![m] = NoEntry]

\* this.tokenProgramCache.clear()
CacheClear(cache) == EmptyCache

CacheIdle ==
    /\ tokenProgramCache = EmptyCache
    /\ globalState = "null"
    /\ mintOwner = [m \in Mints |-> "none"]
    /\ detectPc = [c \in Callers |-> "idle"]
    /\ detectMint = [c \in Callers |-> "mintA"]
    /\ detectQueries = [c \in Callers |-> 0]
    /\ detectResult = [c \in Callers |-> NoResult]
    /\ detected = EmptyCache
    /\ cachedAtStart = [c \in Callers |-> NoEntry]
    /\ cachedRead = NoEntry
    /\ lastClear = NoClear
    /\ overlapped = [c \in Callers |-> FALSE]

\* The callers suspended at one of the two queries of a detection of m.
InFlightOn(m) == {d \in Callers : detectPc[d] # "idle" /\ detectMint[d] = m}

\* detectTokenProgram(tokenAddr), up to its first await: the cache check.
\* overlapped[c] records that the call of c began, or was joined, while
\* another call for the same mint was suspended, with no eviction since.
DetectTokenProgram(c, m) ==
    /\ detectPc[c] = "idle"
    /\ detectMint' = [detectMint EXCEPT ![c] = m]
    /\ detectQueries' = [detectQueries EXCEPT ![c] = 0]
    /\ cachedAtStart' = [cachedAtStart EXCEPT ![c] = detected[m]]
    /\ IF CacheHas(tokenProgramCache, m)
       THEN /\ detectResult' = [detectResult EXCEPT ![c] = Returned(tokenProgramCache[m])]
            /\ detectPc' = detectPc
       ELSE /\ detectResult' = [detectResult EXCEPT ![c] = NoResult]
            /\ detectPc' = [detectPc EXCEPT ![c] = "getMint2022"]
    /\ overlapped' =
         [d \in Callers |->
            IF CacheHas(tokenProgramCache, m) THEN d # c /\ overlapped[d]
            ELSE IF d = c THEN InFlightOn(m) # {}
            ELSE overlapped[d] \/ d \in InFlightOn(m)]
    /\ lastClear' = NoClear
    /\ UNCHANGED <<tokenProgramCache, globalState, mintOwner, detected, cachedRead>>

\* await getMint(..., TOKEN_2022_PROGRAM_ID) returns: cache and return.
GetMint2022Returns(c) ==
    /\ detectPc[c] = "getMint2022"
    /\ mintOwner[detectMint[c]] = "TOKEN_2022_PROGRAM_ID"
    /\ detectQueries' = [detectQueries EXCEPT ![c] = @ + 1]
    /\ tokenProgramCache' = CacheSet(tokenProgramCache, detectMint[c], TOKEN_2022_PROGRAM_ID)
    /\ detected' = [detected EXCEPT ![detectMint[c]] = TOKEN_2022_PROGRAM_ID]
    /\ detectResult' = [detectResult EXCEPT ![c] = Returned(TOKEN_2022_PROGRAM_ID)]
    /\ detectPc' = [detectPc EXCEPT ![c] = "idle"]
    /\ lastClear' = NoClear
    /\ UNCHANGED <<globalState, mintOwner, detectMint, cachedAtStart, cachedRead, overlapped>>

\* await getMint(..., TOKEN_2022_PROGRAM_ID) throws: try the other program.
GetMint2022Throws(c) ==
    /\ detectPc[c] = "getMint2022"
    /\ detectQueries' = [detectQueries EXCEPT ![c] = @ + 1]
    /\ detectPc' = [detectPc EXCEPT ![c] = "getMint"]
    /\ lastClear' = NoClear
    /\ UNCHANGED <<tokenProgramCache, globalState, mintOwner, detectMint,
                   detectResult, detected, cachedAtStart, cachedRead, overlapped>>

\* await getMint(..., TOKEN_PROGRAM_ID) returns: cache and return.
GetMintReturns(c) ==
    /\ detectPc[c] = "getMint"
    /\ mintOwner[detectMint[c]] = "TOKEN_PROGRAM_ID"
    /\ detectQueries' = [detectQueries EXCEPT ![c] = @ + 1]
    /\ tokenProgramCache' = CacheSet(tokenProgramCache, detectMint[c], TOKEN_PROGRAM_ID)
    /\ detected' = [detected EXCEPT ![detectMint[c]] = TOKEN_PROGRAM_ID]
    /\ detectResult' = [detectResult EXCEPT ![c] = Returned(TOKEN_PROGRAM_ID)]
    /\ detectPc' = [detectPc EXCEPT ![c] = "idle"]
    /\ lastClear' = NoClear
    /\ UNCHANGED <<globalState, mintOwner, detectMint, cachedAtStart, cachedRead, overlapped>>

\* A failure path that caches the classic program as a default.
GetMintThrowsCachesDefault(c) ==
    /\ detectPc[c] = "getMint"
    /\ detectQueries' = [detectQueries EXCEPT ![c] = @ + 1]
    /\ tokenProgramCache' = CacheSet(tokenProgramCache, detectMint[c], TOKEN_PROGRAM_ID)
    /\ detectResult' = [detectResult EXCEPT ![c] = Threw(DetectionFailed)]
    /\ detectPc' = [detectPc EXCEPT ![c] = "idle"]
    /\ lastClear' = NoClear
    /\ UNCHANGED <<globalState, mintOwner, detectMint,
                   detected, cachedAtStart, cachedRead, overlapped>>

\* await getMint(..., TOKEN_PROGRAM_ID) throws: the detection failed.
GetMintThrows(c) ==
    /\ detectPc[c] = "getMint"
    /\ detectQueries' = [detectQueries EXCEPT ![c] = @ + 1]
    /\ detectResult' = [detectResult EXCEPT ![c] = Threw(DetectionFailed)]
    /\ detectPc' = [detectPc EXCEPT ![c] = "idle"]
    /\ lastClear' = NoClear
    /\ UNCHANGED <<tokenProgramCache, globalState, mintOwner, detectMint,
                   detected, cachedAtStart, cachedRead, overlapped>>

\* clearTokenProgramCache(tokenAddr = null): tokenAddr is a mint address, or
\* a falsy value (null, undefined, the empty string).
ClearTokenProgramCache(tokenAddr) ==
    /\ tokenProgramCache' =
         IF tokenAddr # Falsy
         THEN CacheDelete(tokenProgramCache, tokenAddr)
         ELSE CacheClear(tokenProgramCache)
    /\ detected' =
         IF tokenAddr # Falsy
         THEN [detected EXCEPT ![tokenAddr] = NoEntry]
         ELSE EmptyCache
    /\ lastClear' = [arg |-> tokenAddr, cache |-> tokenProgramCache,
                     global |-> globalState, inFlight |-> detectPc]
    /\ overlapped' = [c \in Callers |-> FALSE]
    /\ UNCHANGED <<globalState, mintOwner, detectPc, detectMint, detectQueries,
                   detectResult, cachedAtStart, cachedRead>>

\* getCachedTokenProgram(tokenAddr)
GetCachedTokenProgram(m) ==
    /\ cachedRead' = tokenProgramCache[m]
    /\ lastClear' = NoClear
    /\ UNCHANGED <<tokenProgramCache, globalState, mintOwner, detectPc, detectMint,
                   detectQueries, detectResult, detected, cachedAtStart, overlapped>>

\* loadGlobal(): the account is read and decoded into this.globalState.
LoadGlobal ==
    /\ globalState' = "loaded"
    /\ lastClear' = NoClear
    /\ UNCHANGED <<tokenProgramCache, mintOwner, detectPc, detectMint,
                   detectQueries, detectResult, detected, cachedAtStart, cachedRead, overlapped>>

InitCache ==
    /\ tokenProgramCache = EmptyCache
    /\ globalState = "null"
    /\ mintOwner \in [Mints -> {"TOKEN_2022_PROGRAM_ID", "TOKEN_PROGRAM_ID", "none"}]
    /\ detectPc = [c \in Callers |-> "idle"]
    /\ detectMint = [c \in Callers |-> "mintA"]
    /\ detectQueries = [c \in Callers |-> 0]
    /\ detectResult = [c \in Callers |-> NoResult]
    /\ detected = EmptyCache
    /\ cachedAtStart = [c \in Callers |-> NoEntry]
    /\ cachedRead = NoEntry
    /\ lastClear = NoClear
    /\ overlapped = [c \in Callers |-> FALSE]

(***************************************************************************)
(* Pricing and planning (pure functions on BigInt values).  A BigInt       *)
(* division by zero throws a RangeError.                                   *)
(***************************************************************************)
AMM_FEE_BPS == 100
BPS_DENOMINATOR == 10000

Abs(a) == IF a < 0 THEN 0 - a ELSE a

\* a / b on BigInt values, b # 0: the quotient is truncated towards zero.
BigIntDiv(a, b) ==
    IF (a < 0) = (b < 0) THEN Abs(a) \div Abs(b) ELSE 0 - (Abs(a) \div Abs(b))

\* this.state decoded by loadBonding, as the pricing functions read it.
CurveState(r) == [virtualSolReserves |-> r.sol, virtualTokenReserves |-> r.token]

\* { baseAmount, quoteAmount } as getAmmPoolReserves returns it.
PoolReserves(r) == [baseAmount |-> r.token, quoteAmount |-> r.sol]

\* A calcBuy that rounds the new token reserve up instead of down.
calcBuyCeil(solIn, st) ==
    LET newVirtualSol == st.virtualSolReserves + solIn
        newVirtualToken ==
            BigIntDiv(st.virtualSolReserves * st.virtualTokenReserves
                        + newVirtualSol - 1, newVirtualSol)
    IN st.virtualTokenReserves - newVirtualToken

calcBuy(solIn, st) ==
    LET newVirtualSol == st.virtualSolReserves + solIn
        newVirtualToken ==
            BigIntDiv(st.virtualSolReserves * st.virtualTokenReserves, newVirtualSol)
    IN st.virtualTokenReserves - newVirtualToken

calcBuyThrows(solIn, st) == st.virtualSolReserves + solIn = 0

calcSell(tokenIn, st) ==
    LET newVirtualToken == st.virtualTokenReserves + tokenIn
        newVirtualSol ==
            (st.virtualSolReserves * st.virtualTokenReserves) \div newVirtualToken
    IN st.virtualSolReserves - newVirtualSol

calcSellThrows(tokenIn, st) == st.virtualTokenReserves + tokenIn = 0

\* A calculateAmmBuyOutput that takes the fee from the output, after the
\* constant-product formula, instead of from the input.
calculateAmmBuyOutputFeeAfter(quoteIn, res) ==
    LET numerator == res.baseAmount * quoteIn
        denominator == res.quoteAmount + quoteIn
    IN BigIntDiv(BigIntDiv(numerator, denominator) * (BPS_DENOMINATOR - AMM_FEE_BPS),
                 BPS_DENOMINATOR)

calculateAmmBuyOutput(quoteIn, res) ==
    LET quoteInAfterFee ==
            BigIntDiv(quoteIn * (BPS_DENOMINATOR - AMM_FEE_BPS), BPS_DENOMINATOR)
        numerator == res.baseAmount * quoteInAfterFee
        denominator == res.quoteAmount + quoteInAfterFee
    IN BigIntDiv(numerator, denominator)

calculateAmmBuyOutputThrows(quoteIn, res) ==
    res.quoteAmount
      + BigIntDiv(quoteIn * (BPS_DENOMINATOR - AMM_FEE_BPS), BPS_DENOMINATOR) = 0

calculateAmmSellOutput(baseIn, res) ==
    LET baseInAfterFee == (baseIn * (BPS_DENOMINATOR - AMM_FEE_BPS)) \div BPS_DENOMINATOR
        numerator == res.quoteAmount * baseInAfterFee
        denominator == res.baseAmount + baseInAfterFee
    IN numerator \div denominator

calculateAmmSellOutputThrows(baseIn, res) ==
    res.baseAmount + (baseIn * (BPS_DENOMINATOR - AMM_FEE_BPS)) \div BPS_DENOMINATOR = 0

\* splitByMax as one call: the loop of SplitByMaxStep run to its end.
RECURSIVE SplitByMaxLoop(_, _, _)
SplitByMaxLoop(rem, mx, acc) ==
    IF rem > 0
    THEN LET chunk == SplitChunk(rem, mx)
         IN SplitByMaxLoop(rem - chunk, mx, Append(acc, chunk))
    ELSE acc

splitByMax(tot, mx) == SplitByMaxLoop(tot, mx, <<>>)

\* The calls of splitByMax whose loop never ends: remaining stays above 0.
splitByMaxDiverges(tot, mx) == tot > 0 /\ mx <= 0

\* A last chunk that is one more part: the remainder of the division is lost.
SplitIntoNChunkEven(k, n, part, rem) == part

\* const chunk = i === n - 1 ? remaining : part
SplitIntoNChunk(k, n, part, rem) == IF k = n - 1 THEN rem ELSE part

\* splitIntoN(total, n): for (i = 0; i < n; i++) { chunks.push(chunk); remaining -= chunk }
RECURSIVE SplitIntoNLoop(_, _, _, _, _)
SplitIntoNLoop(k, n, part, rem, acc) ==
    IF k < n
    THEN LET chunk == SplitIntoNChunk(k, n, part, rem)
         IN SplitIntoNLoop(k + 1, n, part, rem - chunk, Append(acc, chunk))
    ELSE acc

splitIntoN(tot, n) == SplitIntoNLoop(0, n, tot \div n, tot, <<>>)

\* const part = total / BigInt(n) throws a RangeError for n = 0.
splitIntoNThrows(tot, n) == n = 0

\* A plan with one sub-order too many when the quote is a multiple of the ceiling.
SellChunksOneMore(totalTokenIn, totalSolOut, mx) ==
    IF totalSolOut <= mx
    THEN <<totalTokenIn>>
    ELSE splitIntoN(totalTokenIn, totalSolOut \div mx + 1)

\* tokenChunks of sell and ammSell, from the output quoted for the whole amount.
SellChunks(totalTokenIn, totalSolOut, mx) ==
    IF totalSolOut <= mx
    THEN <<totalTokenIn>>
    ELSE splitIntoN(totalTokenIn, (totalSolOut + mx - 1) \div mx)

SellChunksThrows(totalSolOut, mx) == totalSolOut > mx /\ mx = 0

(***************************************************************************)
(* calcSlippage works on Numbers (doubles).  slippageOpt is                 *)
(* { base, min?, max?, impactFactor? }: an absent field is undefined.      *)
(***************************************************************************)
MathMax(a, b) == IF a >= b THEN a ELSE b
MathMin(a, b) == IF a <= b THEN a ELSE b

RECURSIVE IsPowerOfTwo(_)
IsPowerOfTwo(n) == n = 1 \/ (n > 1 /\ n % 2 = 0 /\ IsPowerOfTwo(n \div 2))

\* Math.floor(impact * 10_000 * factor), impact = Number(tradeSize) /
\* Math.max(Number(reserve), 1).  The doubles round: when the exact product
\* is an integer k and the quotient tradeSize / reserve is not a binary
\* fraction, the product may come out just under k and the floor is k - 1.
\* These are the values the floor can take (tradeSize, factor >= 0).
ImpactFloors(tradeSize, reserve, factor) ==
    LET den == MathMax(reserve, 1)
        num == tradeSize * 10000 * factor
        q == num \div den
    IN IF num % den = 0 /\ tradeSize % den # 0 /\ ~IsPowerOfTwo(den)
       THEN {q, q - 1}
       ELSE {q}

\* const factor = slippageOpt.impactFactor ?? 1
ImpactFactor(slippageOpt) ==
    IF slippageOpt.hasImpactFactor THEN slippageOpt.impactFactor ELSE 1

\* A calcSlippage without the clamp to slippageOpt.max.
SlipAfterMaxSkipped(slip, slippageOpt) == slip

\* if (slippageOpt.max !== undefined) slip = Math.min(slip, slippageOpt.max)
SlipAfterMax(slip, slippageOpt) ==
    IF slippageOpt.hasMax THEN MathMin(slip, slippageOpt.max) ELSE slip

\* if (slippageOpt.min !== undefined) slip = Math.max(slip, slippageOpt.min)
SlipAfterMin(slip, slippageOpt) ==
    IF slippageOpt.hasMin THEN MathMax(slip, slippageOpt.min) ELSE slip

\* calcSlippage({ tradeSize, reserve, slippageOpt }), given the floor of the
\* scaled impact.
calcSlippage(impactFloor, slippageOpt) ==
    SlipAfterMin(SlipAfterMax(slippageOpt.base + impactFloor, slippageOpt), slippageOpt)

\* const maxSol = (solIn * BigInt(10_000 + slippageBps)) / 10_000n  (buy)
\* const maxQuoteIn = ... the same expression                        (ammBuy)
MaxSpend(solIn, slippageBps) == BigIntDiv(solIn * (10000 + slippageBps), 10000)

\* const minSol = (solOut * BigInt(10_000 - slippageBps)) / 10_000n  (sell)
\* const minQuoteOut = ... the same expression                       (ammSell)
MinReceipt(solOut, slippageBps) == BigIntDiv(solOut * (10000 - slippageBps), 10000)

\* A minimum receipt that is encoded as computed.
EncodedMinReceiptUnclamped(minOut) == minOut

\* u64(minSol > 0n ? minSol : 1n) / u64(minQuoteAmountOut > 0n ? ... : 1n):
\* the value given to u64, which writes a value below 2^64 as it is.
EncodedMinReceipt(minOut) == IF minOut > 0 THEN minOut ELSE 1

(***************************************************************************)
(* The batch calls buy, sell, ammBuy and ammSell of one token.  A call is  *)
(* followed from await to await; the ledger (curve completion, the slot    *)
(* that dates a blockhash) moves in between.  The call uses caller 1 of    *)
(* detectTokenProgram.                                                     *)
(***************************************************************************)
TradeOps == {"buy", "sell", "ammBuy", "ammSell"}
CurveOps == {"buy", "sell"}
TradeMint == "mintA"
TradeCaller == 1
NoSnapshot == [read |-> FALSE]
TradeError(m) == [msg |-> m, origin |-> "trade", signature |-> "none"]
CurveAlreadyComplete == TradeError("Bonding curve already completed")
TradeOutcome == [kind |-> "returned", value |-> "TradeOutcome"]

\* lastValidBlockHeight of a blockhash fetched at slot s.
ValidUntil(s) == s + 150

TradeIdle ==
    /\ tradeOp = "none" /\ tradePc = "idle" /\ totalIn = 0 /\ maxSolPerTx = 0
    /\ state = NoSnapshot /\ planChunks = <<>> /\ index = 0
    /\ pendingTransactions = <<>> /\ failedTransactions = <<>>
    /\ tradeResult = NoResult /\ blockhash = 0
    /\ curveComplete = FALSE /\ reserves = [sol |-> 1, token |-> 1] /\ slot = 0
    /\ attempted = <<>> /\ outcomes = <<>> /\ sendCalls = 0 /\ blockhashFetches = 0

ledgerVars == <<curveComplete, reserves, slot>>
inputVars == <<tradeOp, totalIn, maxSolPerTx>>
loopVars == <<index, pendingTransactions, failedTransactions, blockhash,
              attempted, outcomes, sendCalls, blockhashFetches>>

\* The call ends by throwing e.
TradeThrows(e) ==
    /\ tradeResult' = Threw(e)
    /\ tradePc' = "done"

\* A curve check that lets a completed curve through.
CurveCheckMissing(st) == FALSE

\* if (state.complete) throw new Error("Bonding curve already completed")
CurveCheckThrows(st) == st.complete

\* A pending entry that carries the number of entries instead of the plan index.
PendingEntryCounted(sig, validUntil, idx) ==
    [signature |-> sig, lastValidBlockHeight |-> validUntil,
     index |-> Len(pendingTransactions)]

\* A pending entry pushed without the ceiling of its blockhash.
PendingEntryNoCeiling(sig, validUntil, idx) ==
    [signature |-> sig, lastValidBlockHeight |-> 0, index |-> idx]

\* pendingTransactions.push({ signature, lastValidBlockHeight, index: i })
PendingEntry(sig, validUntil, idx) ==
    [signature |-> sig, lastValidBlockHeight |-> validUntil, index |-> idx]

\* A sub-order loop without try/catch: the error leaves the call.
SubOrderAborts(message) ==
    /\ TradeThrows(TradeError(message))
    /\ outcomes' = Append(outcomes, [index |-> index, outcome |-> "threw"])
    /\ UNCHANGED <<index, pendingTransactions, failedTransactions>>

\* catch (e) { failedTransactions.push({ index: i, error: e.message }) }; i++
SubOrderFailed(message) ==
    /\ failedTransactions' =
         Append(failedTransactions, [index |-> index, error |-> message])
    /\ index' = index + 1
    /\ tradePc' = "loop"
    /\ outcomes' = Append(outcomes, [index |-> index, outcome |-> "threw"])
    /\ UNCHANGED <<pendingTransactions, tradeResult>>

\* The plan has been built: enter the sub-order loop, or never leave splitByMax.
PlanBuilt(diverges, plan) ==
    IF diverges
    THEN /\ tradePc' = "splitByMax"
         /\ UNCHANGED <<planChunks, tradeResult>>
    ELSE /\ tradePc' = "loop"
         /\ planChunks' = plan
         /\ UNCHANGED tradeResult

\* buy(...) / sell(...) / ammBuy(...) / ammSell(...) is called: up to the first await.
TradeBegins(op, tot, mx) ==
    /\ detectPc[TradeCaller] = "idle"
    /\ tradeOp' = op /\ totalIn' = tot /\ maxSolPerTx' = mx
    /\ state' = NoSnapshot /\ planChunks' = <<>> /\ index' = 0
    /\ pendingTransactions' = <<>> /\ failedTransactions' = <<>>
    /\ tradeResult' = NoResult /\ blockhash' = 0
    /\ attempted' = <<>> /\ outcomes' = <<>>
    /\ sendCalls' = 0 /\ blockhashFetches' = 0
    /\ IF op \in CurveOps
       THEN /\ DetectTokenProgram(TradeCaller, TradeMint)
            /\ tradePc' = "detectTokenProgram"
       ELSE /\ tradePc' = "getAmmPoolInfo"
            /\ UNCHANGED cacheVars
    /\ UNCHANGED ledgerVars

\* A call made while no other call of the engine is running.
TradeCall(op, tot, mx) ==
    /\ tradePc = "idle"
    /\ TradeBegins(op, tot, mx)

\* await this.detectTokenProgram(tokenAddr) settles.
TradeDetected ==
    /\ tradePc = "detectTokenProgram"
    /\ detectPc[TradeCaller] = "idle"
    /\ IF detectResult[TradeCaller].kind = "threw"
       THEN /\ TradeThrows(detectResult[TradeCaller].error)
            /\ UNCHANGED planChunks
       ELSE CASE tradeOp \in CurveOps ->
                   /\ tradePc' = IF globalState = "null" THEN "loadGlobal"
                                                         ELSE "loadBonding"
                   /\ UNCHANGED <<planChunks, tradeResult>>
              [] tradeOp = "ammBuy" ->
                   /\ tradePc' = "loop"
                   /\ UNCHANGED <<planChunks, tradeResult>>
              [] tradeOp = "ammSell" ->
                   LET totalSolOut == calculateAmmSellOutput(totalIn, state)
                   IN IF SellChunksThrows(totalSolOut, maxSolPerTx)
                      THEN /\ TradeThrows(TradeError("Division by zero"))
                           /\ UNCHANGED planChunks
                      ELSE PlanBuilt(FALSE, SellChunks(totalIn, totalSolOut, maxSolPerTx))
    /\ UNCHANGED <<inputVars, state, loopVars, ledgerVars, cacheVars>>

\* if (!this.globalState) await this.loadGlobal(): the account is read.
TradeLoadGlobalReturns ==
    /\ tradePc = "loadGlobal"
    /\ LoadGlobal
    /\ tradePc' = "loadBonding"
    /\ UNCHANGED <<inputVars, state, planChunks, tradeResult, loopVars, ledgerVars>>

\* await this.loadGlobal() throws ("Global account not found", or the query fails).
TradeLoadGlobalThrows ==
    /\ tradePc = "loadGlobal"
    /\ TradeThrows(TradeError("Global account not found"))
    /\ UNCHANGED <<inputVars, state, planChunks, loopVars, ledgerVars, cacheVars>>

\* await this.loadBonding(mint) throws.
TradeLoadBondingThrows ==
    /\ tradePc = "loadBonding"
    /\ TradeThrows(TradeError("Bonding curve not found"))
    /\ UNCHANGED <<inputVars, state, planChunks, loopVars, ledgerVars, cacheVars>>

\* await this.loadBonding(mint) returns the snapshot; the completion check and
\* the plan follow without an await.
TradeLoadBondingReturns ==
    /\ tradePc = "loadBonding"
    /\ LET st == [read |-> TRUE, complete |-> curveComplete,
                  virtualSolReserves |-> reserves.sol,
                  virtualTokenReserves |-> reserves.token]
       IN /\ state' = st
          /\ IF CurveCheckThrows(st)
             THEN /\ TradeThrows(CurveAlreadyComplete)
                  /\ UNCHANGED planChunks
             ELSE IF tradeOp = "buy"
             THEN PlanBuilt(splitByMaxDiverges(totalIn, maxSolPerTx),
                            IF splitByMaxDiverges(totalIn, maxSolPerTx) THEN <<>>
                            ELSE splitByMax(totalIn, maxSolPerTx))
             ELSE IF calcSellThrows(totalIn, st)
                     \/ SellChunksThrows(calcSell(totalIn, st), maxSolPerTx)
             THEN /\ TradeThrows(TradeError("Division by zero"))
                  /\ UNCHANGED planChunks
             ELSE PlanBuilt(FALSE, SellChunks(totalIn, calcSell(totalIn, st), maxSolPerTx))
    /\ UNCHANGED <<inputVars, loopVars, ledgerVars, cacheVars>>

\* await this.getAmmPoolInfo(mint) throws ("AMM pool not found", ...).
GetAmmPoolInfoThrows ==
    /\ tradePc = "getAmmPoolInfo"
    /\ TradeThrows(TradeError("AMM pool not found"))
    /\ UNCHANGED <<inputVars, state, planChunks, loopVars, ledgerVars, cacheVars>>

\* await this.getAmmPoolInfo(mint) returns: the pool exists once the curve is complete.
GetAmmPoolInfoReturns ==
    /\ tradePc = "getAmmPoolInfo"
    /\ curveComplete
    /\ tradePc' = "getAmmPoolReserves"
    /\ UNCHANGED <<inputVars, state, planChunks, tradeResult, loopVars, ledgerVars,
                   cacheVars>>

\* await this.getAmmPoolReserves(poolKeys) throws.
GetAmmPoolReservesThrows ==
    /\ tradePc = "getAmmPoolReserves"
    /\ TradeThrows(TradeError("getTokenAccountBalance failed"))
    /\ UNCHANGED <<inputVars, state, planChunks, loopVars, ledgerVars, cacheVars>>

\* await this.getAmmPoolReserves(poolKeys) returns; ammBuy plans (splitByMax),
\* ammSell quotes the whole amount; then detectTokenProgram is called.
GetAmmPoolReservesReturns ==
    /\ tradePc = "getAmmPoolReserves"
    /\ LET res == [read |-> TRUE, baseAmount |-> reserves.token,
                   quoteAmount |-> reserves.sol]
       IN /\ state' = res
          /\ IF tradeOp = "ammBuy" /\ splitByMaxDiverges(totalIn, maxSolPerTx)
             THEN /\ tradePc' = "splitByMax"
                  /\ UNCHANGED <<planChunks, tradeResult, cacheVars>>
             ELSE IF tradeOp = "ammSell" /\ calculateAmmSellOutputThrows(totalIn, res)
             THEN /\ TradeThrows(TradeError("Division by zero"))
                  /\ UNCHANGED <<planChunks, cacheVars>>
             ELSE /\ planChunks' = IF tradeOp = "ammBuy"
                                   THEN splitByMax(totalIn, maxSolPerTx)
                                   ELSE <<>>
                  /\ DetectTokenProgram(TradeCaller, TradeMint)
                  /\ tradePc' = "detectTokenProgram"
                  /\ UNCHANGED tradeResult
    /\ UNCHANGED <<inputVars, loopVars, ledgerVars>>

\* for (let i = 0; i < chunks.length; i++): the loop is over, the call returns.
TradeReturns ==
    /\ tradePc = "loop"
    /\ ~(index < Len(planChunks))
    /\ tradeResult' = TradeOutcome
    /\ tradePc' = "done"
    /\ UNCHANGED <<inputVars, state, planChunks, loopVars, ledgerVars, cacheVars>>

\* Sub-order i starts: amounts, slippage, priority fee, the transaction; up to
\* the first await (ensureAta, or for sell the blockhash fetch).
SubOrderStarts ==
    /\ tradePc = "loop"
    /\ index < Len(planChunks)
    /\ attempted' = Append(attempted, index)
    /\ tradePc' = IF tradeOp = "sell" THEN "getLatestBlockhash" ELSE "ensureAta"
    /\ UNCHANGED <<inputVars, state, planChunks, tradeResult, index,
                   pendingTransactions, failedTransactions, blockhash, outcomes,
                   sendCalls, blockhashFetches, ledgerVars, cacheVars>>

\* Sub-order i starts and its computation throws (calcSlippage on a missing
\* option, BigInt of a fraction, u64 of an amount out of range, ...).
SubOrderStartThrows ==
    /\ tradePc = "loop"
    /\ index < Len(planChunks)
    /\ attempted' = Append(attempted, index)
    /\ SubOrderFailed("build")
    /\ UNCHANGED <<inputVars, state, planChunks, blockhash, sendCalls,
                   blockhashFetches, ledgerVars, cacheVars>>

\* await this.ensureAta(...) / await this.ensureWSOLAta(...) returns.
EnsureAtaReturns ==
    /\ tradePc \in {"ensureAta", "ensureWSOLAta"}
    /\ tradePc' = IF tradePc = "ensureAta" /\ tradeOp \in {"ammBuy", "ammSell"}
                  THEN "ensureWSOLAta"
                  ELSE "getLatestBlockhash"
    /\ UNCHANGED <<inputVars, state, planChunks, tradeResult, loopVars, ledgerVars,
                   cacheVars>>

\* await this.ensureAta(...) / await this.ensureWSOLAta(...) throws.
EnsureAtaThrows ==
    /\ tradePc \in {"ensureAta", "ensureWSOLAta"}
    /\ SubOrderFailed(tradePc)
    /\ UNCHANGED <<inputVars, state, planChunks, blockhash, attempted, sendCalls,
                   blockhashFetches, ledgerVars, cacheVars>>

\* await this.connection.getLatestBlockhash('finalized') returns.
GetLatestBlockhashReturns ==
    /\ tradePc = "getLatestBlockhash"
    /\ blockhashFetches' = blockhashFetches + 1
    /\ blockhash' = ValidUntil(slot)
    /\ tradePc' = "sendRawTransaction"
    /\ UNCHANGED <<inputVars, state, planChunks, tradeResult, index,
                   pendingTransactions, failedTransactions, attempted, outcomes,
                   sendCalls, ledgerVars, cacheVars>>

\* await this.connection.getLatestBlockhash('finalized') throws.
GetLatestBlockhashThrows ==
    /\ tradePc = "getLatestBlockhash"
    /\ blockhashFetches' = blockhashFetches + 1
    /\ SubOrderFailed("getLatestBlockhash")
    /\ UNCHANGED <<inputVars, state, planChunks, blockhash, attempted, sendCalls,
                   ledgerVars, cacheVars>>

\* tx.sign(...); await this.connection.sendRawTransaction(...) returns a signature.
SendRawTransactionReturns ==
    /\ tradePc = "sendRawTransaction"
    /\ sendCalls' = sendCalls + 1
    /\ pendingTransactions' =
         Append(pendingTransactions, PendingEntry(<<"tx", index>>, blockhash, index))
    /\ outcomes' = Append(outcomes, [index |-> index, outcome |-> "signature"])
    /\ index' = index + 1
    /\ tradePc' = "loop"
    /\ UNCHANGED <<inputVars, state, planChunks, tradeResult, failedTransactions,
                   blockhash, attempted, blockhashFetches, ledgerVars, cacheVars>>

\* tx.sign(...) or await this.connection.sendRawTransaction(...) throws.
SendRawTransactionThrows ==
    /\ tradePc = "sendRawTransaction"
    /\ sendCalls' = sendCalls + 1
    /\ SubOrderFailed("sendRawTransaction")
    /\ UNCHANGED <<inputVars, state, planChunks, blockhash, attempted,
                   blockhashFetches, ledgerVars, cacheVars>>

\* The ledger: the bonding curve completes (once).
CurveCompletes ==
    /\ ~curveComplete
    /\ curveComplete' = TRUE
    /\ UNCHANGED <<inputVars, tradePc, state, planChunks, tradeResult, loopVars,
                   reserves, slot, cacheVars>>

\* The ledger: a new finalized slot.
SlotAdvances ==
    /\ tradePc \notin {"idle", "done"}
    /\ slot < MaxSlot
    /\ slot' = slot + 1
    /\ UNCHANGED <<inputVars, tradePc, state, planChunks, tradeResult, loopVars,
                   curveComplete, reserves, cacheVars>>

\* The caller has taken the outcome (or the error): the engine is free for
\* the next call, with its cache and its global state as the call left them.
TradeSettled ==
    /\ tradePc = "done"
    /\ tradeOp' = "none" /\ tradePc' = "idle" /\ totalIn' = 0 /\ maxSolPerTx' = 0
    /\ state' = NoSnapshot /\ planChunks' = <<>> /\ index' = 0
    /\ pendingTransactions' = <<>> /\ failedTransactions' = <<>>
    /\ tradeResult' = NoResult /\ blockhash' = 0
    /\ attempted' = <<>> /\ outcomes' = <<>>
    /\ sendCalls' = 0 /\ blockhashFetches' = 0
    /\ UNCHANGED <<ledgerVars, cacheVars>>

\* The getMint queries of the call's detectTokenProgram.
TradeDetectStep ==
    /\ \/ GetMint2022Returns(TradeCaller)
       \/ GetMint2022Throws(TradeCaller)
       \/ GetMintReturns(TradeCaller)
       \/ GetMintThrows(TradeCaller)
    /\ UNCHANGED tradeVars

InitTrade ==
    /\ tradeOp = "none" /\ tradePc = "idle" /\ totalIn = 0 /\ maxSolPerTx = 0
    /\ state = NoSnapshot /\ planChunks = <<>> /\ index = 0
    /\ pendingTransactions = <<>> /\ failedTransactions = <<>>
    /\ tradeResult = NoResult /\ blockhash = 0
    /\ curveComplete \in BOOLEAN
    /\ reserves \in {[sol |-> 2, token |-> 3], [sol |-> 5, token |-> 2]}
    /\ slot = 0
    /\ attempted = <<>> /\ outcomes = <<>> /\ sendCalls = 0 /\ blockhashFetches = 0

(***************************************************************************)
(* One call of a pricing or planning function, or the amounts of one       *)
(* sub-order of a plan, against one reserve snapshot.  The functions are   *)
(* pure: the call and what it returned (or threw) are all there is.        *)
(***************************************************************************)
NoCall == [fn |-> "none"]

\* What a call returns: an amount, a list of chunks, or a slippage in bps.
Amount(v) == Returned([amount |-> v])
Chunks(c) == Returned([chunks |-> c])
Bps(v) == Returned([bps |-> v])
RangeError == [msg |-> "Division by zero", origin |-> "BigInt", signature |-> "none"]

\* The reserve snapshots: small reserves, and a pool of 500 base for 10000 quote.
QuoteSnapshots ==
    [sol : 0..MaxReserve, token : 0..MaxReserve] \cup {[sol |-> 10000, token |-> 500]}

\* Inputs of the AMM quotes: the 1% fee shows from 100 units on.
AmmAmounts == 0..MaxAmount \cup {100, 101, 1000}

\* The slippage options of a caller.
SlippageOpts ==
    { [base |-> b, hasMin |-> mn[1], min |-> mn[2], hasMax |-> mxx[1], max |-> mxx[2],
       hasImpactFactor |-> f[1], impactFactor |-> f[2]] :
        b \in {0, 500, 12000},
        mn \in {<<FALSE, 0>>, <<TRUE, 100>>, <<TRUE, 6000>>},
        mxx \in {<<FALSE, 0>>, <<TRUE, 1000>>, <<TRUE, 20000>>},
        f \in {<<FALSE, 0>>, <<TRUE, 0>>, <<TRUE, 3>>} }

QuoteIdle ==
    /\ quoteReserves = [sol |-> 0, token |-> 0]
    /\ quoteCall = NoCall
    /\ quoteResult = NoResult

\* calcBuy(solIn, state)
CallCalcBuy(solIn) ==
    /\ quoteCall = NoCall
    /\ quoteCall' = [fn |-> "calcBuy", solIn |-> solIn]
    /\ quoteResult' =
         IF calcBuyThrows(solIn, CurveState(quoteReserves))
         THEN Threw(RangeError)
         ELSE Amount(calcBuy(solIn, CurveState(quoteReserves)))
    /\ UNCHANGED quoteReserves

\* calcSell(tokenIn, state)
CallCalcSell(tokenIn) ==
    /\ quoteCall = NoCall
    /\ quoteCall' = [fn |-> "calcSell", tokenIn |-> tokenIn]
    /\ quoteResult' =
         IF calcSellThrows(tokenIn, CurveState(quoteReserves))
         THEN Threw(RangeError)
         ELSE Amount(calcSell(tokenIn, CurveState(quoteReserves)))
    /\ UNCHANGED quoteReserves

\* calculateAmmBuyOutput(quoteIn, reserves)
CallCalculateAmmBuyOutput(quoteIn) ==
    /\ quoteCall = NoCall
    /\ quoteCall' = [fn |-> "calculateAmmBuyOutput", quoteIn |-> quoteIn]
    /\ quoteResult' =
         IF calculateAmmBuyOutputThrows(quoteIn, PoolReserves(quoteReserves))
         THEN Threw(RangeError)
         ELSE Amount(calculateAmmBuyOutput(quoteIn, PoolReserves(quoteReserves)))
    /\ UNCHANGED quoteReserves

\* calculateAmmSellOutput(baseIn, reserves)
CallCalculateAmmSellOutput(baseIn) ==
    /\ quoteCall = NoCall
    /\ quoteCall' = [fn |-> "calculateAmmSellOutput", baseIn |-> baseIn]
    /\ quoteResult' =
         IF calculateAmmSellOutputThrows(baseIn, PoolReserves(quoteReserves))
         THEN Threw(RangeError)
         ELSE Amount(calculateAmmSellOutput(baseIn, PoolReserves(quoteReserves)))
    /\ UNCHANGED quoteReserves

\* splitIntoN(total, n)
CallSplitIntoN(tot, n) ==
    /\ quoteCall = NoCall
    /\ quoteCall' = [fn |-> "splitIntoN", total |-> tot, n |-> n]
    /\ quoteResult' =
         IF splitIntoNThrows(tot, n)
         THEN Threw(RangeError)
         ELSE Chunks(splitIntoN(tot, n))
    /\ UNCHANGED quoteReserves

\* calcSlippage({ tradeSize, reserve, slippageOpt }), reserve being one side
\* of the snapshot.
CallCalcSlippage(tradeSize, side, slippageOpt) ==
    /\ quoteCall = NoCall
    /\ quoteCall' = [fn |-> "calcSlippage", tradeSize |-> tradeSize, side |-> side,
                     slippageOpt |-> slippageOpt]
    /\ LET reserve == IF side = "sol" THEN quoteReserves.sol ELSE quoteReserves.token
       IN \E impactFloor \in ImpactFloors(tradeSize, reserve, ImpactFactor(slippageOpt)) :
             quoteResult' = Bps(calcSlippage(impactFloor, slippageOpt))
    /\ UNCHANGED quoteReserves

\* What a sub-order has computed when its instruction is built: the amount of
\* the chunk, the quote, the slippage, the bound, the two u64 arguments of
\* the instruction data and the lamports wrapped by ensureWSOLAta.
SubOrderBuilt(plan, amountIn, quoted, slippageBps, bound, encoded, wrapped) ==
    Returned([plan |-> plan, amountIn |-> amountIn, quoted |-> quoted,
              slippageBps |-> slippageBps, bound |-> bound,
              encoded |-> encoded, wrapped |-> wrapped])

\* Sub-order i of buy / ammBuy: solChunks = splitByMax(totalSolIn, maxSolPerTx),
\* then the amounts of the loop body.  ammBuy wraps maxQuoteIn lamports
\* (ensureWSOLAta, mode 'buy'); buy wraps nothing.
BuySubOrder(op, tot, mx, i, slippageOpt) ==
    /\ quoteCall = NoCall
    /\ ~splitByMaxDiverges(tot, mx)
    /\ i \in 1..Len(splitByMax(tot, mx))
    /\ quoteCall' = [fn |-> "subOrder", op |-> op, total |-> tot, maxSolPerTx |-> mx,
                     index |-> i - 1, slippageOpt |-> slippageOpt]
    /\ LET solChunks == splitByMax(tot, mx)
           solIn == solChunks[i]
           st == CurveState(quoteReserves)
           res == PoolReserves(quoteReserves)
           throws == IF op = "buy" THEN calcBuyThrows(solIn, st)
                                   ELSE calculateAmmBuyOutputThrows(solIn, res)
           tokenOut == IF op = "buy" THEN calcBuy(solIn, st)
                                     ELSE calculateAmmBuyOutput(solIn, res)
           reserve == IF op = "buy" THEN st.virtualSolReserves ELSE res.quoteAmount
       IN IF throws
          THEN quoteResult' = Threw(RangeError)
          ELSE \E impactFloor \in ImpactFloors(solIn, reserve, ImpactFactor(slippageOpt)) :
                  LET slippageBps == calcSlippage(impactFloor, slippageOpt)
                      maxSol == MaxSpend(solIn, slippageBps)
                  IN quoteResult' =
                       SubOrderBuilt(solChunks, solIn, tokenOut, slippageBps, maxSol,
                                     <<tokenOut, maxSol>>,
                                     IF op = "ammBuy" THEN maxSol ELSE 0)
    /\ UNCHANGED quoteReserves

\* Sub-order i of sell / ammSell: the quote of the whole amount, tokenChunks,
\* then the amounts of the loop body.  Nothing is wrapped (mode 'sell').
SellSubOrder(op, tot, mx, i, slippageOpt) ==
    /\ quoteCall = NoCall
    /\ quoteCall' = [fn |-> "subOrder", op |-> op, total |-> tot, maxSolPerTx |-> mx,
                     index |-> i - 1, slippageOpt |-> slippageOpt]
    /\ LET st == CurveState(quoteReserves)
           res == PoolReserves(quoteReserves)
           quoteThrows == IF op = "sell" THEN calcSellThrows(tot, st)
                                         ELSE calculateAmmSellOutputThrows(tot, res)
           totalSolOut == IF op = "sell" THEN calcSell(tot, st)
                                         ELSE calculateAmmSellOutput(tot, res)
       IN IF quoteThrows \/ SellChunksThrows(totalSolOut, mx)
          THEN /\ i = 1
               /\ quoteResult' = Threw(RangeError)
          ELSE LET tokenChunks == SellChunks(tot, totalSolOut, mx)
                   tokenIn == tokenChunks[i]
                   throws == IF op = "sell"
                             THEN calcSellThrows(tokenIn, st)
                             ELSE calculateAmmSellOutputThrows(tokenIn, res)
                   solOut == IF op = "sell" THEN calcSell(tokenIn, st)
                                            ELSE calculateAmmSellOutput(tokenIn, res)
                   reserve == IF op = "sell" THEN st.virtualTokenReserves
                                             ELSE res.baseAmount
               IN /\ i \in 1..Len(tokenChunks)
                  /\ IF throws
                     THEN quoteResult' = Threw(RangeError)
                     ELSE \E impactFloor \in
                            ImpactFloors(tokenIn, reserve, ImpactFactor(slippageOpt)) :
                           LET slippageBps == calcSlippage(impactFloor, slippageOpt)
                               minSol == MinReceipt(solOut, slippageBps)
                           IN quoteResult' =
                                SubOrderBuilt(tokenChunks, tokenIn, solOut,
                                              slippageBps, minSol,
                                              <<tokenIn, EncodedMinReceipt(minSol)>>, 0)
    /\ UNCHANGED quoteReserves

InitQuote ==
    /\ quoteReserves \in QuoteSnapshots
    /\ quoteCall = NoCall
    /\ quoteResult = NoResult

(***************************************************************************)

(***************************************************************************)
(* listenTrades(callback, mintFilter = null): it subscribes a handler to   *)
(* the program's logs and returns what connection.onLogs returns, the id   *)
(* of the subscription (a number).  A notification carries the log lines   *)
(* of one transaction; a line is the prefix it starts with and, for a      *)
(* "Program data: " line, the decoded payload: the 8-byte discriminator    *)
(* and the mint that follows it.  The handler runs without an await, the   *)
(* callback calls included.                                                *)
(***************************************************************************)
TRADE_EVENT == "TRADE_EVENT"
NoFilter == "null"
NoHandle == [kind |-> "undefined"]
SubscriptionId == [kind |-> "number"]
NotAFunction == [msg |-> "unsubscribe is not a function", origin |-> "caller",
                 signature |-> "none"]
LogLines ==
    [prefix : {"Program data: ", "Program log: "},
     discriminator : {TRADE_EVENT, "CREATE_EVENT"},
     mint : Mints]
Logs == UNION {[1..n -> LogLines] : n \in 0..MaxLogLines}

\* The event object the callback is called with, for line i of the log.
TradeEvent(line, i) == [mint |-> line.mint, line |-> i]

\* if (mintFilter && !mint.equals(mintFilter)) return;
MintMismatchReturns(rest) == <<>>

\* for (const logLine of log.logs) { ... }: the callback calls of the handler
\* from line i on, in the order they are made.
RECURSIVE HandleLogLines(_, _, _)
HandleLogLines(lines, i, filter) ==
    IF i > Len(lines) THEN <<>>
    ELSE LET line == lines[i]
             rest == HandleLogLines(lines, i + 1, filter)
         IN IF line.prefix # "Program data: " THEN rest
            ELSE IF line.discriminator # TRADE_EVENT THEN rest
            ELSE IF filter # NoFilter /\ line.mint # filter
            THEN MintMismatchReturns(rest)
            ELSE <<TradeEvent(line, i)>> \o rest

ListenIdle ==
    /\ listenPc = "idle" /\ mintFilter = NoFilter
    /\ handle = NoHandle /\ unsubscribeResult = NoResult
    /\ lastLog = <<>> /\ delivered = <<>>
    /\ notified = 0 /\ callbackCount = 0

\* listenTrades(callback, mintFilter): connection.onLogs registers the handler
\* and its return value is returned.
ListenTrades(filter) ==
    /\ listenPc = "idle"
    /\ listenPc' = "subscribed"
    /\ mintFilter' = filter
    /\ handle' = SubscriptionId
    /\ UNCHANGED <<unsubscribeResult, lastLog, delivered, notified, callbackCount>>

\* The connection delivers a notification to the handler.
OnLogs(lines) ==
    /\ listenPc = "subscribed"
    /\ notified < MaxNotifications
    /\ notified' = notified + 1
    /\ lastLog' = lines
    /\ delivered' = HandleLogLines(lines, 1, mintFilter)
    /\ callbackCount' = callbackCount + Len(HandleLogLines(lines, 1, mintFilter))
    /\ UNCHANGED <<listenPc, mintFilter, handle, unsubscribeResult>>

\* The caller invokes the value listenTrades returned: unsubscribe().  Calling
\* a number throws a TypeError; nothing removes the handler.
InvokeHandle ==
    /\ handle # NoHandle
    /\ unsubscribeResult = NoResult
    /\ IF handle.kind = "function"
       THEN /\ unsubscribeResult' = Returned("undefined")
            /\ listenPc' = "removed"
       ELSE /\ unsubscribeResult' = Threw(NotAFunction)
            /\ listenPc' = listenPc
    /\ UNCHANGED <<mintFilter, handle, lastLog, delivered, notified, callbackCount>>

InitListen == ListenIdle

(***************************************************************************)
(* autoBuy / autoSell: getTradeMode reads the bonding curve through        *)
(* isAmmCompleted, whose catch turns a failed read into "completed"; then  *)
(* buy / sell or ammBuy / ammSell is called with the same arguments.       *)
(***************************************************************************)
AutoOps == {"autoBuy", "autoSell"}

AutoIdle == autoOp = "none" /\ autoMode = "none" /\ modeReadThrew = FALSE

\* return isAmmMode ? "amm" : "bonding"
TradeMode(isAmmMode) == IF isAmmMode THEN "amm" ELSE "bonding"

\* if (mode === "bonding") return this.buy(...); else return this.ammBuy(...);
Dispatched(op, mode) ==
    IF op = "autoBuy"
    THEN IF mode = "bonding" THEN "buy" ELSE "ammBuy"
    ELSE IF mode = "bonding" THEN "sell" ELSE "ammSell"

\* autoBuy(...) / autoSell(...) is called: up to the await of loadBonding in
\* isAmmCompleted.
AutoCall(op, tot, mx) ==
    /\ tradePc = "idle"
    /\ detectPc[TradeCaller] = "idle"
    /\ autoOp' = op /\ autoMode' = "none" /\ modeReadThrew' = FALSE
    /\ totalIn' = tot /\ maxSolPerTx' = mx
    /\ tradePc' = "isAmmCompleted"
    /\ UNCHANGED <<tradeOp, state, planChunks, tradeResult, loopVars, ledgerVars,
                   cacheVars>>

\* isAmmCompleted: await this.loadBonding(mint) returns, state.complete is the
\* answer; getTradeMode maps it and the trade method is called.
IsAmmCompletedReturns ==
    /\ tradePc = "isAmmCompleted"
    /\ autoMode' = TradeMode(curveComplete)
    /\ TradeBegins(Dispatched(autoOp, TradeMode(curveComplete)), totalIn, maxSolPerTx)
    /\ UNCHANGED <<autoOp, modeReadThrew>>

\* An isAmmCompleted without the catch: the error of the read leaves the call.
IsAmmCompletedRethrows ==
    /\ tradePc = "isAmmCompleted"
    /\ modeReadThrew' = TRUE
    /\ TradeThrows(TradeError("Bonding curve not found"))
    /\ UNCHANGED <<autoOp, autoMode, inputVars, state, planChunks, loopVars,
                   ledgerVars, cacheVars>>

\* isAmmCompleted: new PublicKey or loadBonding throws; catch (error) { return
\* true; }, so getTradeMode answers "amm" and the AMM method is called.
IsAmmCompletedCatches ==
    /\ tradePc = "isAmmCompleted"
    /\ autoMode' = TradeMode(TRUE)
    /\ modeReadThrew' = TRUE
    /\ TradeBegins(Dispatched(autoOp, TradeMode(TRUE)), totalIn, maxSolPerTx)
    /\ UNCHANGED autoOp

\* The caller has taken the outcome of the auto call.
AutoSettled ==
    /\ autoOp # "none"
    /\ TradeSettled
    /\ autoOp' = "none" /\ autoMode' = "none" /\ modeReadThrew' = FALSE

(* Specifications.                                                         *)
(***************************************************************************)
NextSplit ==
    \/ SplitByMaxStep /\ UNCHANGED <<pollVars, cacheVars, tradeVars, quoteVars, listenVars, autoVars>>
    \/ SplitByMaxReturn /\ UNCHANGED <<pollVars, cacheVars, tradeVars, quoteVars, listenVars, autoVars>>

InitSpecSplit ==
    /\ InitSplit /\ PollIdle /\ CacheIdle /\ TradeIdle /\ QuoteIdle
    /\ ListenIdle /\ AutoIdle

SpecSplit == InitSpecSplit /\ [][NextSplit]_vars

NextPoll ==
    \/ PollLoop /\ UNCHANGED <<splitVars, cacheVars, tradeVars, quoteVars, listenVars, autoVars>>
    \/ GetTransactionThrows /\ UNCHANGED <<splitVars, cacheVars, tradeVars, quoteVars, listenVars, autoVars>>
    \/ GetTransactionReturns /\ UNCHANGED <<splitVars, cacheVars, tradeVars, quoteVars, listenVars, autoVars>>
    \/ GetBlockHeightThrows /\ UNCHANGED <<splitVars, cacheVars, tradeVars, quoteVars, listenVars, autoVars>>
    \/ GetBlockHeightReturns /\ UNCHANGED <<splitVars, cacheVars, tradeVars, quoteVars, listenVars, autoVars>>
    \/ TxLands /\ UNCHANGED <<splitVars, cacheVars, tradeVars, quoteVars, listenVars, autoVars>>
    \/ HeightGrows /\ UNCHANGED <<splitVars, cacheVars, tradeVars, quoteVars, listenVars, autoVars>>

\* The awaited timer and queries settle, so the call's next step is taken.
InitSpecPoll ==
    /\ InitPoll /\ SplitIdle /\ CacheIdle /\ TradeIdle /\ QuoteIdle
    /\ ListenIdle /\ AutoIdle

SpecPoll ==
    /\ InitSpecPoll
    /\ [][NextPoll]_vars
    /\ WF_vars(PollerStep /\ UNCHANGED <<splitVars, cacheVars, tradeVars, quoteVars, listenVars, autoVars>>)

NextCache ==
    \/ \E c \in Callers, m \in Mints :
          DetectTokenProgram(c, m) /\ UNCHANGED <<splitVars, pollVars, tradeVars, quoteVars, listenVars, autoVars>>
    \/ \E c \in Callers : GetMint2022Returns(c) /\ UNCHANGED <<splitVars, pollVars, tradeVars, quoteVars, listenVars, autoVars>>
    \/ \E c \in Callers : GetMint2022Throws(c) /\ UNCHANGED <<splitVars, pollVars, tradeVars, quoteVars, listenVars, autoVars>>
    \/ \E c \in Callers : GetMintReturns(c) /\ UNCHANGED <<splitVars, pollVars, tradeVars, quoteVars, listenVars, autoVars>>
    \/ \E c \in Callers : GetMintThrows(c) /\ UNCHANGED <<splitVars, pollVars, tradeVars, quoteVars, listenVars, autoVars>>
    \/ \E a \in Mints \cup {Falsy} :
          ClearTokenProgramCache(a) /\ UNCHANGED <<splitVars, pollVars, tradeVars, quoteVars, listenVars, autoVars>>
    \/ \E m \in Mints : GetCachedTokenProgram(m) /\ UNCHANGED <<splitVars, pollVars, tradeVars, quoteVars, listenVars, autoVars>>
    \/ LoadGlobal /\ UNCHANGED <<splitVars, pollVars, tradeVars, quoteVars, listenVars, autoVars>>

InitSpecCache ==
    /\ InitCache /\ SplitIdle /\ PollIdle /\ TradeIdle /\ QuoteIdle
    /\ ListenIdle /\ AutoIdle

SpecCache == InitSpecCache /\ [][NextCache]_vars

NextTrade ==
    \/ \E op \in TradeOps, tot \in 0..MaxTradeTotal, mx \in 0..MaxTradeCeiling :
          TradeCall(op, tot, mx) /\ UNCHANGED <<splitVars, pollVars, quoteVars, listenVars, autoVars>>
    \/ TradeDetectStep /\ UNCHANGED <<splitVars, pollVars, quoteVars, listenVars, autoVars>>
    \/ TradeDetected /\ UNCHANGED <<splitVars, pollVars, quoteVars, listenVars, autoVars>>
    \/ TradeLoadGlobalReturns /\ UNCHANGED <<splitVars, pollVars, quoteVars, listenVars, autoVars>>
    \/ TradeLoadGlobalThrows /\ UNCHANGED <<splitVars, pollVars, quoteVars, listenVars, autoVars>>
    \/ TradeLoadBondingReturns /\ UNCHANGED <<splitVars, pollVars, quoteVars, listenVars, autoVars>>
    \/ TradeLoadBondingThrows /\ UNCHANGED <<splitVars, pollVars, quoteVars, listenVars, autoVars>>
    \/ GetAmmPoolInfoReturns /\ UNCHANGED <<splitVars, pollVars, quoteVars, listenVars, autoVars>>
    \/ GetAmmPoolInfoThrows /\ UNCHANGED <<splitVars, pollVars, quoteVars, listenVars, autoVars>>
    \/ GetAmmPoolReservesReturns /\ UNCHANGED <<splitVars, pollVars, quoteVars, listenVars, autoVars>>
    \/ GetAmmPoolReservesThrows /\ UNCHANGED <<splitVars, pollVars, quoteVars, listenVars, autoVars>>
    \/ SubOrderStarts /\ UNCHANGED <<splitVars, pollVars, quoteVars, listenVars, autoVars>>
    \/ SubOrderStartThrows /\ UNCHANGED <<splitVars, pollVars, quoteVars, listenVars, autoVars>>
    \/ EnsureAtaReturns /\ UNCHANGED <<splitVars, pollVars, quoteVars, listenVars, autoVars>>
    \/ EnsureAtaThrows /\ UNCHANGED <<splitVars, pollVars, quoteVars, listenVars, autoVars>>
    \/ GetLatestBlockhashReturns /\ UNCHANGED <<splitVars, pollVars, quoteVars, listenVars, autoVars>>
    \/ GetLatestBlockhashThrows /\ UNCHANGED <<splitVars, pollVars, quoteVars, listenVars, autoVars>>
    \/ SendRawTransactionReturns /\ UNCHANGED <<splitVars, pollVars, quoteVars, listenVars, autoVars>>
    \/ SendRawTransactionThrows /\ UNCHANGED <<splitVars, pollVars, quoteVars, listenVars, autoVars>>
    \/ TradeReturns /\ UNCHANGED <<splitVars, pollVars, quoteVars, listenVars, autoVars>>
    \/ TradeSettled /\ UNCHANGED <<splitVars, pollVars, quoteVars, listenVars, autoVars>>
    \/ CurveCompletes /\ UNCHANGED <<splitVars, pollVars, quoteVars, listenVars, autoVars>>
    \/ SlotAdvances /\ UNCHANGED <<splitVars, pollVars, quoteVars, listenVars, autoVars>>

InitSpecTrade ==
    /\ InitTrade /\ InitCache /\ SplitIdle /\ PollIdle /\ QuoteIdle
    /\ ListenIdle /\ AutoIdle
    /\ \A m \in Mints \ {TradeMint} : mintOwner[m] = "none"

SpecTrade == InitSpecTrade /\ [][NextTrade]_vars

\* One call is followed: it is made from the state where none has been made.
NextQuote ==
    \/ quoteCall = NoCall /\ \E solIn \in 0..MaxAmount :
          CallCalcBuy(solIn) /\ UNCHANGED <<splitVars, pollVars, cacheVars, tradeVars, listenVars, autoVars>>
    \/ quoteCall = NoCall /\ \E tokenIn \in 0..MaxAmount :
          CallCalcSell(tokenIn) /\ UNCHANGED <<splitVars, pollVars, cacheVars, tradeVars, listenVars, autoVars>>
    \/ quoteCall = NoCall /\ \E quoteIn \in AmmAmounts :
          CallCalculateAmmBuyOutput(quoteIn)
            /\ UNCHANGED <<splitVars, pollVars, cacheVars, tradeVars, listenVars, autoVars>>
    \/ quoteCall = NoCall /\ \E baseIn \in AmmAmounts :
          CallCalculateAmmSellOutput(baseIn)
            /\ UNCHANGED <<splitVars, pollVars, cacheVars, tradeVars, listenVars, autoVars>>
    \/ quoteCall = NoCall /\ \E tot \in 0..MaxAmount, n \in 0..MaxParts :
          CallSplitIntoN(tot, n) /\ UNCHANGED <<splitVars, pollVars, cacheVars, tradeVars, listenVars, autoVars>>
    \/ quoteCall = NoCall /\ \E tradeSize \in 0..MaxAmount, side \in {"sol", "token"},
          slippageOpt \in SlippageOpts :
          CallCalcSlippage(tradeSize, side, slippageOpt)
            /\ UNCHANGED <<splitVars, pollVars, cacheVars, tradeVars, listenVars, autoVars>>
    \/ quoteCall = NoCall /\ \E op \in {"buy", "ammBuy"}, tot \in 0..MaxOrderTotal,
          mx \in 0..MaxOrderCeiling, i \in 1..MaxOrderTotal,
          slippageOpt \in SlippageOpts :
          BuySubOrder(op, tot, mx, i, slippageOpt)
            /\ UNCHANGED <<splitVars, pollVars, cacheVars, tradeVars, listenVars, autoVars>>
    \/ quoteCall = NoCall /\ \E op \in {"sell", "ammSell"}, tot \in 0..MaxOrderTotal,
          mx \in 0..MaxOrderCeiling, i \in 1..(MaxReserve + 1),
          slippageOpt \in SlippageOpts :
          SellSubOrder(op, tot, mx, i, slippageOpt)
            /\ UNCHANGED <<splitVars, pollVars, cacheVars, tradeVars, listenVars, autoVars>>

InitSpecQuote ==
    /\ InitQuote /\ SplitIdle /\ PollIdle /\ CacheIdle /\ TradeIdle
    /\ ListenIdle /\ AutoIdle

SpecQuote == InitSpecQuote /\ [][NextQuote]_vars

(***************************************************************************)

NextListen ==
    \/ \E filter \in Mints \cup {NoFilter} :
          ListenTrades(filter)
            /\ UNCHANGED <<splitVars, pollVars, cacheVars, tradeVars, quoteVars, autoVars>>
    \/ listenPc = "subscribed" /\ notified < MaxNotifications /\ \E lines \in Logs :
          OnLogs(lines)
            /\ UNCHANGED <<splitVars, pollVars, cacheVars, tradeVars, quoteVars, autoVars>>
    \/ InvokeHandle
         /\ UNCHANGED <<splitVars, pollVars, cacheVars, tradeVars, quoteVars, autoVars>>

InitSpecListen ==
    /\ InitListen /\ SplitIdle /\ PollIdle /\ CacheIdle /\ TradeIdle /\ QuoteIdle
    /\ AutoIdle

SpecListen == InitSpecListen /\ [][NextListen]_vars

NextAuto ==
    \/ \E op \in AutoOps, tot \in 0..MaxAutoTotal, mx \in 0..MaxAutoCeiling :
          AutoCall(op, tot, mx) /\ UNCHANGED <<splitVars, pollVars, quoteVars, listenVars>>
    \/ IsAmmCompletedReturns /\ UNCHANGED <<splitVars, pollVars, quoteVars, listenVars>>
    \/ IsAmmCompletedCatches /\ UNCHANGED <<splitVars, pollVars, quoteVars, listenVars>>
    \/ TradeDetectStep /\ UNCHANGED <<splitVars, pollVars, quoteVars, listenVars, autoVars>>
    \/ TradeDetected /\ UNCHANGED <<splitVars, pollVars, quoteVars, listenVars, autoVars>>
    \/ TradeLoadGlobalReturns /\ UNCHANGED <<splitVars, pollVars, quoteVars, listenVars, autoVars>>
    \/ TradeLoadGlobalThrows /\ UNCHANGED <<splitVars, pollVars, quoteVars, listenVars, autoVars>>
    \/ TradeLoadBondingReturns /\ UNCHANGED <<splitVars, pollVars, quoteVars, listenVars, autoVars>>
    \/ TradeLoadBondingThrows /\ UNCHANGED <<splitVars, pollVars, quoteVars, listenVars, autoVars>>
    \/ GetAmmPoolInfoReturns /\ UNCHANGED <<splitVars, pollVars, quoteVars, listenVars, autoVars>>
    \/ GetAmmPoolInfoThrows /\ UNCHANGED <<splitVars, pollVars, quoteVars, listenVars, autoVars>>
    \/ GetAmmPoolReservesReturns /\ UNCHANGED <<splitVars, pollVars, quoteVars, listenVars, autoVars>>
    \/ GetAmmPoolReservesThrows /\ UNCHANGED <<splitVars, pollVars, quoteVars, listenVars, autoVars>>
    \/ SubOrderStarts /\ UNCHANGED <<splitVars, pollVars, quoteVars, listenVars, autoVars>>
    \/ SubOrderStartThrows /\ UNCHANGED <<splitVars, pollVars, quoteVars, listenVars, autoVars>>
    \/ EnsureAtaReturns /\ UNCHANGED <<splitVars, pollVars, quoteVars, listenVars, autoVars>>
    \/ EnsureAtaThrows /\ UNCHANGED <<splitVars, pollVars, quoteVars, listenVars, autoVars>>
    \/ GetLatestBlockhashReturns /\ UNCHANGED <<splitVars, pollVars, quoteVars, listenVars, autoVars>>
    \/ GetLatestBlockhashThrows /\ UNCHANGED <<splitVars, pollVars, quoteVars, listenVars, autoVars>>
    \/ SendRawTransactionReturns /\ UNCHANGED <<splitVars, pollVars, quoteVars, listenVars, autoVars>>
    \/ SendRawTransactionThrows /\ UNCHANGED <<splitVars, pollVars, quoteVars, listenVars, autoVars>>
    \/ TradeReturns /\ UNCHANGED <<splitVars, pollVars, quoteVars, listenVars, autoVars>>
    \/ AutoSettled /\ UNCHANGED <<splitVars, pollVars, quoteVars, listenVars>>
    \/ CurveCompletes /\ UNCHANGED <<splitVars, pollVars, quoteVars, listenVars, autoVars>>
    \/ SlotAdvances /\ UNCHANGED <<splitVars, pollVars, quoteVars, listenVars, autoVars>>

InitSpecAuto ==
    /\ InitTrade /\ InitCache /\ SplitIdle /\ PollIdle /\ QuoteIdle
    /\ ListenIdle /\ AutoIdle
    /\ \A m \in Mints \ {TradeMint} : mintOwner[m] = "none"

SpecAuto == InitSpecAuto /\ [][NextAuto]_vars

(* Claims.                                                                 *)
(***************************************************************************)

IndicesOf(entries) == {entries[j].index : j \in DOMAIN entries}
CountOf(entries, k) == Cardinality({j \in DOMAIN entries : entries[j].index = k})
OutcomeOf(k, what) ==
    \E j \in DOMAIN outcomes : outcomes[j] = [index |-> k, outcome |-> what]

\* C1: a batch call that returns an outcome for a plan of n sub-orders lists
\* each plan index 0..n-1 exactly once over pendingTransactions and
\* failedTransactions: in pendingTransactions exactly when the submission of
\* that sub-order returned a signature, in failedTransactions exactly when a
\* step of that sub-order threw.
C1_EachIndexOnce ==
    (tradePc = "done" /\ tradeResult = TradeOutcome) =>
        /\ Len(pendingTransactions) + Len(failedTransactions) = Len(planChunks)
        /\ \A k \in 0..(Len(planChunks) - 1) :
              /\ CountOf(pendingTransactions, k) + CountOf(failedTransactions, k) = 1
              /\ k \in IndicesOf(pendingTransactions) <=> OutcomeOf(k, "signature")
              /\ k \in IndicesOf(failedTransactions) <=> OutcomeOf(k, "threw")

C1_Witness ==
    /\ tradePc = "done" /\ tradeResult = TradeOutcome
    /\ tradeOp = "sell"
    /\ Len(planChunks) >= 3
    /\ Len(failedTransactions) >= 1
    /\ Len(pendingTransactions) >= 2
    /\ failedTransactions[1].index = 0

\* C2: a batch call throws only before any sub-order has been attempted;
\* once the first sub-order has started the call does not throw, whatever
\* fails, and when it returns every sub-order of the plan has been attempted.
C2_ThrowsOnlyUpfront ==
    /\ tradeResult.kind = "threw" =>
          (attempted = <<>> /\ sendCalls = 0 /\ blockhashFetches = 0)
    /\ tradePc = "done" => tradeResult.kind \in {"threw", "returned"}
    /\ (tradePc = "done" /\ tradeResult.kind = "returned") =>
          attempted = [k \in 1..Len(planChunks) |-> k - 1]

C2_Witness ==
    /\ tradePc = "done" /\ tradeResult = TradeOutcome
    /\ tradeOp = "ammBuy"
    /\ Len(planChunks) >= 2
    /\ Len(failedTransactions) = Len(planChunks)
    /\ Len(attempted) = Len(planChunks)

\* C3: when the snapshot that buy or sell has read says complete, the call
\* has failed with the curve-already-complete error and has fetched no
\* blockhash and submitted no transaction.
C3_CompleteCurveRejected ==
    (tradeOp \in CurveOps /\ state.read /\ state.complete) =>
        /\ tradePc = "done"
        /\ tradeResult = Threw(CurveAlreadyComplete)
        /\ attempted = <<>>
        /\ sendCalls = 0
        /\ blockhashFetches = 0

C3_Witness ==
    /\ tradeOp = "sell" /\ state.read /\ state.complete
    /\ totalIn >= 2 /\ maxSolPerTx = 1
    /\ tradeResult = Threw(CurveAlreadyComplete)

\* C4: in confirmTransactionWithPolling, once a status query has returned the
\* transaction with an error payload, the call has ended with the
\* transaction-rejected error at that attempt: no status query and no
\* block-height query is made afterwards and the attempt counter stays.
C4_RejectedAtOnce ==
    rejectedAt # <<>> =>
        /\ pollPc = "done"
        /\ pollResult = Threw(RejectedError)
        /\ statusQueries = rejectedAt[1].statusQueries
        /\ heightQueries = rejectedAt[1].heightQueries
        /\ attempt = rejectedAt[1].attempt

C4_Witness ==
    /\ rejectedAt # <<>>
    /\ rejectedAt[1].attempt >= 2
    /\ rejectedAt[1].attempt < maxAttempts

\* C5 (as claimed): if at some attempt the ledger's finalized height is above
\* lastValidBlockHeight while the transaction has not been found, the call
\* ends with the transaction-expired error, whatever the other queries do.
\* (Stated for the calls that end with an error of the poller's own.)
C5_ExpiredWhateverQueriesDo ==
    (pollPc = "done" /\ pastCeilingUnfound /\ pollResult.kind = "threw"
        /\ pollResult.error.origin = "poller")
    => pollResult = Threw(ExpiredError)

\* C5 (amended): if at some attempt the status query returns not-found and
\* the block-height query of that attempt returns a height above
\* lastValidBlockHeight, the call ends at that attempt with the
\* transaction-expired error.
C5_ExpiredWhenHeightReturned ==
    heightPastReturned =>
        /\ pollPc = "done"
        /\ pollResult = Threw(ExpiredError)

C5_Witness ==
    /\ heightPastReturned
    /\ attempt < maxAttempts
    /\ pollResult = Threw(ExpiredError)

\* C6: confirmTransactionWithPolling makes at most maxAttempts status queries
\* and terminates; when the attempts are used up without a confirmation, a
\* rejection or an expiry, it fails with the timed-out error, whose message
\* is neither the rejected nor the expired one and which carries the signature.
C6_Bounded ==
    /\ statusQueries <= maxAttempts
    /\ heightQueries <= statusQueries
    /\ attempt <= maxAttempts + 1
    /\ (pollPc = "done" /\ attempt > maxAttempts) =>
          /\ pollResult = Threw(TimedOutError(Signature))
          /\ pollResult.error.msg \notin {RejectedError.msg, ExpiredError.msg}
          /\ pollResult.error.signature = Signature
    /\ (pollPc = "done" /\ attempt <= maxAttempts) =>
          \/ pollResult = Returned(Signature)
          \/ /\ pollResult.kind = "threw"
             /\ pollResult.error.msg \in {RejectedError.msg, ExpiredError.msg}

C6_PollTerminates == []C6_Bounded /\ <>(pollPc = "done")

C6_Witness ==
    /\ pollPc = "done"
    /\ maxAttempts >= 2
    /\ statusQueries = maxAttempts
    /\ pollResult = Threw(TimedOutError(Signature))

\* C7 (as claimed): an error thrown by the status query or by the block-height
\* query never ends the call: it is swallowed and the attempt it was thrown
\* in is used up.
C7_QueryErrorsSwallowed ==
    /\ pollResult.kind = "threw" => pollResult.error.origin = "poller"
    /\ queryThrows <= attempt - 1

\* C8: from the moment a detection for mint m has succeeded until m is
\* evicted, every detectTokenProgram(m) call returns at once, without a
\* remote query, the result that detection cached.
C8_CachedDetection ==
    \A c \in Callers :
        cachedAtStart[c] # NoEntry =>
            /\ detectPc[c] = "idle"
            /\ detectQueries[c] = 0
            /\ detectResult[c] = Returned(cachedAtStart[c])

C8_Witness ==
    \E c \in Callers :
        /\ cachedAtStart[c] = TOKEN_PROGRAM_ID
        /\ detectResult[c] = Returned(TOKEN_PROGRAM_ID)
        /\ detectQueries[c] = 0
        /\ \E m \in Mints : tokenProgramCache[m] = NoEntry

\* C9: clearTokenProgramCache(m) with a mint address m removes the entry of
\* m and nothing else: every other entry of the cache, the global-config
\* cell and the calls in flight are as they were before.
C9_ClearOneFrame ==
    (lastClear # NoClear /\ lastClear.arg # Falsy) =>
        /\ tokenProgramCache[lastClear.arg] = NoEntry
        /\ \A k \in Mints \ {lastClear.arg} :
              tokenProgramCache[k] = lastClear.cache[k]
        /\ globalState = lastClear.global
        /\ detectPc = lastClear.inFlight

C9_Witness ==
    /\ lastClear # NoClear
    /\ lastClear.arg = "mintA"
    /\ lastClear.cache["mintA"] # NoEntry
    /\ tokenProgramCache["mintA"] = NoEntry
    /\ tokenProgramCache["mintB"] # NoEntry
    /\ globalState = "loaded"

\* C10: for total >= 0 and max >= 1, the chunks splitByMax returns sum to
\* total, each chunk is between 1 and max, and there are ceil(total / max).
C10_SplitByMax ==
    (splitPc = "done" /\ max >= 1) =>
        /\ SumSeq(chunks) = total
        /\ \A i \in 1..Len(chunks) : chunks[i] >= 1 /\ chunks[i] <= max
        /\ Len(chunks) = CeilDiv(total, max)

C10_Witness ==
    /\ splitPc = "done"
    /\ max >= 2
    /\ Len(chunks) >= 3
    /\ chunks[Len(chunks)] < max

SellOps == {"sell", "ammSell"}
BuyOps == {"buy", "ammBuy"}

\* The call is in its sub-order loop or has returned: the plan has been built.
PlanIsBuilt ==
    \/ tradePc \in {"loop", "ensureAta", "ensureWSOLAta", "getLatestBlockhash",
                     "sendRawTransaction"}
    \/ (tradePc = "done" /\ tradeResult = TradeOutcome)

\* The output quoted for an amount against the snapshot the call has read.
QuotedOut(amount) ==
    IF tradeOp = "sell" THEN calcSell(amount, state)
                        ELSE calculateAmmSellOutput(amount, state)

\* C11: for total >= 0 and n >= 1, splitIntoN(total, n) returns exactly n
\* chunks, their sum is total, and every chunk but the last is
\* floor(total / n).
C11_SplitIntoN ==
    (quoteCall.fn = "splitIntoN" /\ quoteCall.n >= 1) =>
        /\ quoteResult.kind = "returned"
        /\ Len(quoteResult.value.chunks) = quoteCall.n
        /\ SumSeq(quoteResult.value.chunks) = quoteCall.total
        /\ \A i \in 1..(quoteCall.n - 1) :
              quoteResult.value.chunks[i] * quoteCall.n <= quoteCall.total
              /\ quoteCall.total < (quoteResult.value.chunks[i] + 1) * quoteCall.n

C11_Witness ==
    /\ quoteCall.fn = "splitIntoN"
    /\ quoteCall.n = 3 /\ quoteCall.total = 4
    /\ quoteResult = Chunks(<<1, 1, 2>>)

\* C12: for a sell or an ammSell with maxSolPerTx >= 1, the plan is the
\* single sub-order [totalTokenIn] when the output quoted for the whole
\* amount is at most maxSolPerTx, and has ceil(quoted / maxSolPerTx)
\* sub-orders otherwise; either way the sub-orders sum to totalTokenIn.
C12_SellPlan ==
    (tradeOp \in SellOps /\ PlanIsBuilt /\ maxSolPerTx >= 1) =>
        /\ SumSeq(planChunks) = totalIn
        /\ IF QuotedOut(totalIn) <= maxSolPerTx
           THEN planChunks = <<totalIn>>
           ELSE /\ (Len(planChunks) - 1) * maxSolPerTx < QuotedOut(totalIn)
                /\ QuotedOut(totalIn) <= Len(planChunks) * maxSolPerTx

C12_Witness ==
    /\ tradeOp = "ammSell" /\ PlanIsBuilt
    /\ maxSolPerTx = 1
    /\ QuotedOut(totalIn) = 2
    /\ planChunks = <<1, 2>>

\* C13 (as claimed): every sub-order of a sell plan, quoted against the
\* snapshot the plan was made from, yields at most maxSolPerTx.
\* (Stated for the plans whose sub-orders all sell at least one token.)
C13_SellSubOrdersBounded ==
    (tradeOp \in SellOps /\ PlanIsBuilt /\ totalIn >= 1 /\ maxSolPerTx >= 1
        /\ \A i \in 1..Len(planChunks) : planChunks[i] >= 1) =>
        \A i \in 1..Len(planChunks) : QuotedOut(planChunks[i]) <= maxSolPerTx

\* C14 (as claimed): the spend a buy or ammBuy sub-order authorises (the
\* encoded maxSol / maxQuoteIn, and the lamports ammBuy wraps) is at most
\* maxSolPerTx, whatever the slippage options.
C14_BuySpendBounded ==
    (quoteCall.fn = "subOrder" /\ quoteCall.op \in BuyOps
        /\ quoteResult.kind = "returned") =>
        /\ quoteResult.value.encoded[2] <= quoteCall.maxSolPerTx
        /\ quoteResult.value.wrapped <= quoteCall.maxSolPerTx

\* C15 (as claimed): with virtualSolReserves >= 1, virtualTokenReserves >= 1
\* and x >= 1, calcBuy(x, state) is strictly less than virtualTokenReserves.
C15_CalcBuyBelowReserve ==
    (quoteCall.fn = "calcBuy" /\ quoteCall.solIn >= 1
        /\ quoteReserves.sol >= 1 /\ quoteReserves.token >= 1) =>
        /\ quoteResult.kind = "returned"
        /\ quoteResult.value.amount < quoteReserves.token

\* C16 (as claimed): with positive reserves and x >= 1, selling the tokens
\* t = calcBuy(x, state) against the reserves after the buy returns at most x.
C16_BuyThenSellNoGain ==
    (quoteCall.fn = "calcBuy" /\ quoteCall.solIn >= 1
        /\ quoteReserves.sol >= 1 /\ quoteReserves.token >= 1
        /\ quoteResult.kind = "returned") =>
        LET t == quoteResult.value.amount
            after == [virtualSolReserves |-> quoteReserves.sol + quoteCall.solIn,
                      virtualTokenReserves |-> quoteReserves.token - t]
        IN calcSell(t, after) <= quoteCall.solIn

\* C17: one curve trade keeps the product k = Vb * Vt up to truncation: after
\* a buy of x >= 1,  k - (Vb + x) < (Vb + x) * (Vt - calcBuy(x)) <= k;
\* after a sell of y >= 1,  k - (Vt + y) < (Vb - calcSell(y)) * (Vt + y) <= k.
C17_ConstantProduct ==
    LET Vb == quoteReserves.sol
        Vt == quoteReserves.token
        k == Vb * Vt
    IN /\ (quoteCall.fn = "calcBuy" /\ quoteCall.solIn >= 1) =>
             /\ quoteResult.kind = "returned"
             /\ k - (Vb + quoteCall.solIn)
                  < (Vb + quoteCall.solIn) * (Vt - quoteResult.value.amount)
             /\ (Vb + quoteCall.solIn) * (Vt - quoteResult.value.amount) <= k
       /\ (quoteCall.fn = "calcSell" /\ quoteCall.tokenIn >= 1) =>
             /\ quoteResult.kind = "returned"
             /\ k - (Vt + quoteCall.tokenIn)
                  < (Vb - quoteResult.value.amount) * (Vt + quoteCall.tokenIn)
             /\ (Vb - quoteResult.value.amount) * (Vt + quoteCall.tokenIn) <= k

C17_Witness ==
    /\ quoteCall.fn = "calcBuy" /\ quoteCall.solIn = 2
    /\ quoteReserves = [sol |-> 3, token |-> 4]
    /\ quoteResult = Amount(2)

\* C18: for q >= 0 and reserves with quoteAmount + f > 0, where
\* f = floor(q * 9900 / 10000), calculateAmmBuyOutput(q, reserves) is
\* floor(baseAmount * f / (quoteAmount + f)); calculateAmmSellOutput is the
\* same with base and quote exchanged.
C18_AmmQuote ==
    /\ quoteCall.fn = "calculateAmmBuyOutput" =>
          LET f == (quoteCall.quoteIn * 9900) \div 10000
          IN quoteReserves.sol + f > 0 =>
                /\ quoteResult.kind = "returned"
                /\ quoteResult.value.amount * (quoteReserves.sol + f) <= quoteReserves.token * f
                /\ quoteReserves.token * f
                     < (quoteResult.value.amount + 1) * (quoteReserves.sol + f)
    /\ quoteCall.fn = "calculateAmmSellOutput" =>
          LET f == (quoteCall.baseIn * 9900) \div 10000
          IN quoteReserves.token + f > 0 =>
                /\ quoteResult.kind = "returned"
                /\ quoteResult.value.amount * (quoteReserves.token + f) <= quoteReserves.sol * f
                /\ quoteReserves.sol * f
                     < (quoteResult.value.amount + 1) * (quoteReserves.token + f)

C18_Witness ==
    /\ quoteCall.fn = "calculateAmmBuyOutput" /\ quoteCall.quoteIn = 1000
    /\ quoteReserves = [sol |-> 10000, token |-> 500]
    /\ quoteResult = Amount(45)

\* C19 (as claimed): when slippageOpt.min and slippageOpt.max are both
\* configured, calcSlippage returns s with min <= s <= max.
C19_SlippageWithinMinMax ==
    (quoteCall.fn = "calcSlippage" /\ quoteCall.slippageOpt.hasMin
        /\ quoteCall.slippageOpt.hasMax) =>
        /\ quoteCall.slippageOpt.min <= quoteResult.value.bps
        /\ quoteResult.value.bps <= quoteCall.slippageOpt.max

\* C19 (amended): when slippageOpt.min and slippageOpt.max are both
\* configured and min <= max, calcSlippage returns s with min <= s <= max.
C19_SlippageWithinOrderedMinMax ==
    (quoteCall.fn = "calcSlippage" /\ quoteCall.slippageOpt.hasMin
        /\ quoteCall.slippageOpt.hasMax
        /\ quoteCall.slippageOpt.min <= quoteCall.slippageOpt.max) =>
        /\ quoteCall.slippageOpt.min <= quoteResult.value.bps
        /\ quoteResult.value.bps <= quoteCall.slippageOpt.max

C19_Witness ==
    /\ quoteCall.fn = "calcSlippage"
    /\ quoteCall.slippageOpt.hasMin /\ quoteCall.slippageOpt.min = 100
    /\ quoteCall.slippageOpt.hasMax /\ quoteCall.slippageOpt.max = 1000
    /\ quoteCall.slippageOpt.base = 0
    /\ quoteCall.tradeSize = 3 /\ quoteCall.side = "token"
    /\ quoteReserves.token = 2
    /\ quoteResult = Bps(1000)

\* C20: in every sell instruction that is built (sell and ammSell) the
\* encoded minimum receipt is at least 1: when
\* quoted * (10000 - slippageBps) / 10000 is zero or negative, 1 is encoded.
C20_MinReceiptAtLeastOne ==
    (quoteCall.fn = "subOrder" /\ quoteCall.op \in SellOps
        /\ quoteResult.kind = "returned") =>
        LET built == quoteResult.value
            scaled == built.quoted * (10000 - built.slippageBps)
        IN /\ built.encoded[2] >= 1
           /\ scaled < 10000 => built.encoded[2] = 1
           /\ scaled >= 10000 => built.encoded[2] * 10000 <= scaled

C20_Witness ==
    /\ quoteCall.fn = "subOrder" /\ quoteCall.op = "ammSell"
    /\ quoteResult.kind = "returned"
    /\ quoteResult.value.quoted >= 1
    /\ quoteResult.value.slippageBps > 10000
    /\ quoteResult.value.bound < 0
    /\ quoteResult.value.encoded[2] = 1

\* The variant the ledger fixes for mint m ("none": no program owns it).
OwnerVariant(m) ==
    IF mintOwner[m] = "TOKEN_2022_PROGRAM_ID" THEN TOKEN_2022_PROGRAM_ID
    ELSE TOKEN_PROGRAM_ID

\* C25: two detectTokenProgram calls for one mint that overlap (neither
\* found the entry, no eviction since): once both have finished, the calls
\* that returned returned the same variant, the one the ledger fixes for the
\* mint, and the cache holds that variant.
C25_ConcurrentDetection ==
    \A c1 \in Callers : \A c2 \in Callers \ {c1} :
        (/\ overlapped[c1] /\ overlapped[c2]
         /\ detectMint[c1] = detectMint[c2]
         /\ detectPc[c1] = "idle" /\ detectPc[c2] = "idle"
         /\ detectResult[c1].kind = "returned") =>
            /\ detectResult[c1] = Returned(OwnerVariant(detectMint[c1]))
            /\ detectResult[c2].kind = "returned" => detectResult[c2] = detectResult[c1]
            /\ tokenProgramCache[detectMint[c1]] = detectResult[c1].value

C25_Witness ==
    /\ overlapped[1] /\ overlapped[2]
    /\ detectMint[1] = detectMint[2]
    /\ detectPc[1] = "idle" /\ detectPc[2] = "idle"
    /\ detectQueries[1] = 2 /\ detectQueries[2] = 2
    /\ detectResult[1] = Returned(TOKEN_PROGRAM_ID)
    /\ detectResult[2] = Returned(TOKEN_PROGRAM_ID)
    /\ tokenProgramCache[detectMint[1]] = TOKEN_PROGRAM_ID

\* A call is at its second query only after its first one failed, and a call
\* that failed made both queries.
C26_FixedOrder ==
    \A c \in Callers :
        /\ detectPc[c] = "getMint2022" => detectQueries[c] = 0
        /\ detectPc[c] = "getMint" => detectQueries[c] = 1
        /\ detectResult[c] = Threw(DetectionFailed) =>
              /\ detectPc[c] = "idle"
              /\ detectQueries[c] = 2

\* The step in which a detection fails leaves the cache as it was; a call
\* leaves the cache check only for the first query, and one that returns at
\* once had an entry for its mint.
C26_FailureStep ==
    \A c \in Callers :
        /\ (detectPc[c] # "idle" /\ detectResult'[c] = Threw(DetectionFailed)) =>
              tokenProgramCache' = tokenProgramCache
        /\ (detectPc[c] = "idle" /\ detectPc'[c] # "idle") =>
              /\ detectPc'[c] = "getMint2022"
              /\ ~CacheHas(tokenProgramCache, detectMint'[c])
        /\ (detectPc[c] = "idle" /\ detectPc'[c] = "idle"
            /\ detectResult'[c] # detectResult[c]) =>
              /\ CacheHas(tokenProgramCache, detectMint'[c])
              /\ detectResult'[c] = Returned(tokenProgramCache[detectMint'[c]])

\* C26: detectTokenProgram tries the two program variants in a fixed order,
\* the second only after the first failed; when both fail it throws the
\* detection-failed error and leaves the cache unchanged, so that a later
\* call queries again.
C26_DetectionFailure == []C26_FixedOrder /\ [][C26_FailureStep]_vars

C26_Witness ==
    /\ detectResult[1] = Threw(DetectionFailed)
    /\ detectQueries[1] = 2
    /\ detectMint[1] = detectMint[2]
    /\ tokenProgramCache[detectMint[1]] = NoEntry
    /\ detectPc[2] = "getMint2022"
    /\ ~overlapped[2]

\* The four ends of a call: Confirmed, Failed, Expired and TimedOut.
PollEnds ==
    {Returned(Signature), Threw(RejectedError), Threw(ExpiredError),
     Threw(TimedOutError(Signature))}

\* C27 (as claimed): the call returns normally only when a status query found
\* the transaction without an error payload, and then it returns the
\* signature at that attempt without a block-height query in it, also when
\* the finalized height is already past lastValidBlockHeight; every call
\* ends in exactly one of Confirmed, Failed, Expired or TimedOut.
C27_ConfirmedOrOneOfFour ==
    /\ pollResult.kind = "returned" =>
          /\ pollPc = "done"
          /\ pollResult = Returned(Signature)
          /\ txInfo = "ok"
          /\ statusQueries = attempt
          /\ heightQueries <= attempt - 1
    /\ pollPc = "done" => pollResult \in PollEnds

\* The positions of a sub-order between its start and its record.
SubOrderInFlight ==
    tradePc \in {"ensureAta", "ensureWSOLAta", "getLatestBlockhash",
                 "sendRawTransaction"}

\* Sub-orders are started in index order, one at a time, each one recorded
\* before the next starts; both lists are in ascending plan index.
C28_OneAtATime ==
    tradeOp \in BuyOps =>
        /\ \A j \in 1..Len(attempted) : attempted[j] = j - 1
        /\ Len(pendingTransactions) + Len(failedTransactions) = index
        /\ Len(attempted) = IF SubOrderInFlight THEN index + 1 ELSE index
        /\ blockhashFetches <= Len(attempted)
        /\ sendCalls <= blockhashFetches
        /\ \A j \in 1..Len(pendingTransactions), k \in 1..Len(pendingTransactions) :
              j < k => pendingTransactions[j].index < pendingTransactions[k].index
        /\ \A j \in 1..Len(failedTransactions), k \in 1..Len(failedTransactions) :
              j < k => failedTransactions[j].index < failedTransactions[k].index

\* The blockhash of a sub-order is fetched after every earlier sub-order was
\* recorded, and the entry pushed for it carries the ceiling of that fetch.
C28_OwnBlockhash ==
    (tradeOp \in BuyOps /\ SubOrderInFlight) =>
        /\ blockhashFetches' # blockhashFetches =>
              /\ Len(pendingTransactions) + Len(failedTransactions) = index
              /\ attempted[Len(attempted)] = index
              /\ tradePc' = "sendRawTransaction" => blockhash' = ValidUntil(slot)
        /\ sendCalls' # sendCalls =>
              /\ Len(pendingTransactions) + Len(failedTransactions) = index
              /\ blockhash' = blockhash
        /\ pendingTransactions' # pendingTransactions =>
              /\ tradePc = "sendRawTransaction"
              /\ pendingTransactions' =
                   Append(pendingTransactions,
                          [signature |-> <<"tx", index>>,
                           lastValidBlockHeight |-> blockhash, index |-> index])

C29_SellChunksPositive ==
    (tradeOp \in SellOps /\ PlanIsBuilt /\ totalIn >= 1 /\ maxSolPerTx >= 1) =>
        /\ Len(planChunks) <= totalIn
        /\ \A i \in 1..Len(planChunks) : planChunks[i] >= 1

\* C30 (as claimed): splitByMax(total, max) returns after finitely many
\* iterations for every total >= 0 and max >= 0, max = 0 included.  The loop
\* condition reads remaining alone and max never changes, so the call
\* returns exactly when every iteration lowers remaining.
C30_SplitByMaxTerminates ==
    [][(splitPc = "loop" /\ chunks' # chunks) => remaining' < remaining]_vars

\* The lines of a notification the callback is owed for: labeled data lines
\* that carry the trade-event selector and a mint the filter lets through.
OwedLines(lines, filter) ==
    {i \in 1..Len(lines) :
        /\ lines[i].prefix = "Program data: "
        /\ lines[i].discriminator = TRADE_EVENT
        /\ filter = NoFilter \/ lines[i].mint = filter}

\* C21 (as claimed): for every log notification the callback is invoked
\* exactly once, in log order, for each labeled data line that carries the
\* trade-event selector and whose mint passes the optional filter, and for no
\* other line: a dropped event does not suppress the callback of a later
\* matching event of the same notification.
C21_CallbackPerMatchingLine ==
    notified >= 1 =>
        /\ \A i \in OwedLines(lastLog, mintFilter) :
              Cardinality({j \in 1..Len(delivered) :
                             delivered[j] = TradeEvent(lastLog[i], i)}) = 1
        /\ \A j \in 1..Len(delivered) :
              delivered[j].line \in OwedLines(lastLog, mintFilter)
        /\ \A j \in 1..Len(delivered), k \in 1..Len(delivered) :
              j < k => delivered[j].line < delivered[k].line

\* C22 (as claimed): what listenTrades returns is an unsubscribe handle the
\* caller can invoke, and once the caller has invoked it no notification
\* leads to a callback any more.
C22_NoCallbackAfterUnsubscribe ==
    [][/\ handle' # NoHandle => handle'.kind = "function"
       /\ unsubscribeResult' # NoResult => unsubscribeResult'.kind = "returned"
       /\ unsubscribeResult # NoResult => callbackCount' = callbackCount]_vars

\* C23 (as claimed): when the bonding-curve read that autoBuy / autoSell make
\* to select the phase fails, the call ends with that error and no trade
\* method is entered: no sub-order is attempted on either phase.
C23_PhaseReadErrorFatal ==
    (autoOp # "none" /\ modeReadThrew) =>
        /\ tradePc = "done"
        /\ tradeResult = Threw(TradeError("Bonding curve not found"))
        /\ tradeOp = "none"
        /\ attempted = <<>>

\* C23: when the bonding-curve read that autoBuy / autoSell make to select the
\* phase fails, the error is not propagated: the AMM phase is selected, the
\* call goes on as ammBuy / ammSell, and no sub-order on the bonding-curve
\* phase is attempted.
C23_PhaseReadErrorSelectsAmm ==
    (autoOp # "none" /\ modeReadThrew) =>
        /\ autoMode = "amm"
        /\ tradeOp = IF autoOp = "autoBuy" THEN "ammBuy" ELSE "ammSell"
        /\ tradePc # "isAmmCompleted"
        /\ tradeResult # Threw(TradeError("Bonding curve not found"))

C23_Witness ==
    /\ autoOp = "autoSell" /\ modeReadThrew
    /\ tradeOp = "ammSell"
    /\ tradePc = "done" /\ tradeResult = TradeOutcome
    /\ Len(pendingTransactions) >= 1

\* C24 (as claimed): autoBuy and autoSell trade on the phase the token is in
\* and never fail with 'Bonding curve already completed', whenever the curve
\* completes relative to the reads of the call.  (Stated for the calls whose
\* phase read returned.)
C24_AutoNeverCurveCompleted ==
    (autoOp # "none" /\ ~modeReadThrew) =>
        /\ tradeResult # Threw(CurveAlreadyComplete)
        /\ tradeOp \in {"ammBuy", "ammSell"} => curveComplete
        /\ (tradeOp \in CurveOps /\ PlanIsBuilt) => ~state.complete

====
